---- MODULE Spec2Model ----
(***************************************************************************)
(* karpathy-maldonado: a WhatsApp listener that filters group messages,    *)
(* asks an LLM whether a message announces an event, extracts the event    *)
(* and stores it once.                                                     *)
(*                                                                         *)
(* The module models the parts of the program, each with its own          *)
(* specification over the shared state:                                    *)
(*   SpecStore    the events table and the saveEvent / deleteEvent calls   *)
(*   SpecRace     two concurrent saveEvent calls with one message id       *)
(*   SpecTable    one client calling every operation of the store          *)
(*   SpecRoundTrip events with different texts, saved and fetched          *)
(*   SpecListing  events with different start times, saved and listed      *)
(*   SpecHandler  the message tasks: normalisation and the group filter    *)
(*   SpecPipeline the message tasks through classification, extraction     *)
(*                and storage                                              *)
(*   SpecLlm      one LLM stage call with its retry policy (SpecLlmFair:   *)
(*                every request settles and every sleep elapses)           *)
(*   SpecConn     the connection manager and its reconnect backoff         *)
(*                (SpecConnFair: timers fire and forked fibers run)        *)
(*   SpecSession  connection updates, credential rotations and inbound     *)
(*                messages of the sessions of one run (SpecSessionFair:    *)
(*                every task that can take a step eventually takes one)    *)
(*   SpecBatch    messages.upsert batches and the tasks they fork          *)
(*   SpecConfig   the allow-list parsed from WHATSAPP_ALLOWED_GROUPS       *)
(*   SpecNormalizer  the canonical message of every envelope shape         *)
(*   SpecDiscovery   group selection interleaved with message tasks        *)
(*   SpecMessageIds  message ids from the envelope key to the table        *)
(***************************************************************************)
EXTENDS Integers, Sequences, FiniteSets, TLC

VARIABLES
    rows,                 \* the events table: a set of rows
    nextId,               \* the table's AUTOINCREMENT sequence
    calls,                \* the storage calls issued so far, by call id
    llm,                  \* the LLM stage call in progress
    reconnectRetryCount,  \* index.ts module-level counter
    sockets,              \* every socket made so far, in creation order
    timers,               \* pending reconnect timers (setTimeout)
    fibers,               \* forked effects that have not run yet
    exitCode,             \* {} while running, {code} after process.exit(code)
    connLog,              \* what the connection manager has done (history)
    configRef,            \* Ref<Config>: the allow-list snapshot
    selecting,            \* handleConnected fibers in progress, writes done
    tasks                 \* the message tasks, by task id

storeVars   == <<rows, nextId, calls>>
llmVars     == <<llm>>
connVars    == <<reconnectRetryCount, sockets, timers, fibers, exitCode, connLog>>
handlerVars == <<configRef, selecting, tasks>>
vars        == <<rows, nextId, calls, llm, reconnectRetryCount, sockets, timers,
                 fibers, exitCode, connLog, configRef, selecting, tasks>>

Null == "null"

Range(s) == {s[i] : i \in DOMAIN s}

(***************************************************************************)
(* EVENT STORE (src/db/event-storage.ts, src/db/schema.ts)                 *)
(***************************************************************************)

\* Bounds of the store model.
MaxCalls == 3

CallIds == 1..MaxCalls

\* Slugs the extraction can produce and message ids the transport can carry
\* ("" is the id of an envelope without key.id).
Slugs      == {"s1", "s2"}
MessageIds == {"", "m1", "m2"}

\* Texts are sequences of characters.  The first index i >= from at which delim occurs in text, 0 when none.
RECURSIVE indexOf(_, _, _)
indexOf(text, delim, from) ==
    IF from + Len(delim) - 1 > Len(text) THEN 0
    ELSE IF SubSeq(text, from, from + Len(delim) - 1) = delim THEN from
    ELSE indexOf(text, delim, from + 1)

\* text.replace(/delim(.*?)delim/g, open + "$1" + close): from the left, each
\* delimiter that has a later partner is replaced together with it, the
\* nearest one; everything else is copied.
RECURSIVE replaceDelimited(_, _, _, _, _)
replaceDelimited(text, delim, open, close, from) ==
    IF from > Len(text) THEN <<>>
    ELSE LET n == Len(delim)
             j == IF from + n - 1 <= Len(text)
                     /\ SubSeq(text, from, from + n - 1) = delim
                  THEN indexOf(text, delim, from + n)
                  ELSE 0
         IN  IF j # 0
             THEN open \o SubSeq(text, from + n, j - 1) \o close
                    \o replaceDelimited(text, delim, open, close, j + n)
             ELSE <<text[from]>>
                    \o replaceDelimited(text, delim, open, close, from + 1)

\* The end of the match of /https?:\/\/[^\s]+/ that starts at from, 0 when
\* there is none.
RECURSIVE lastNonSpace(_, _)
lastNonSpace(text, from) ==
    IF from > Len(text) \/ text[from] = " " THEN from - 1
    ELSE lastNonSpace(text, from + 1)

urlEnd(text, from) ==
    LET http  == <<"h", "t", "t", "p", ":", "/", "/">>
        https == <<"h", "t", "t", "p", "s", ":", "/", "/">>
        after == IF from + 7 <= Len(text) /\ SubSeq(text, from, from + 7) = https
                 THEN from + 8
                 ELSE IF from + 6 <= Len(text) /\ SubSeq(text, from, from + 6) = http
                 THEN from + 7
                 ELSE 0
    IN  IF after = 0 \/ lastNonSpace(text, after) < after THEN 0
        ELSE lastNonSpace(text, after)

\* markdown.ts convertUrlsToMarkdownLinks: [enlace externo](url)
RECURSIVE convertUrlsFrom(_, _)
convertUrlsFrom(text, from) ==
    IF from > Len(text) THEN <<>>
    ELSE LET e == urlEnd(text, from)
         IN  IF e # 0
             THEN <<"[", "e", "n", "l", "a", "c", "e", " ", "e", "x", "t", "e",
                    "r", "n", "o", "]", "(">>
                    \o SubSeq(text, from, e) \o <<")">> \o convertUrlsFrom(text, e + 1)
             ELSE <<text[from]>> \o convertUrlsFrom(text, from + 1)

convertUrlsToMarkdownLinks(text) == convertUrlsFrom(text, 1)

\* The grave accent character.
Backtick == "backtick"

\* markdown.ts preserveWhatsAppFormatting: monospace, bold, italic and
\* strikethrough, in this order, each on the result of the one before.
preserveWhatsAppFormatting(text) ==
    CHOOSE out \in
        {replaceDelimited(italic, <<"~">>, <<"~", "~">>, <<"~", "~">>, 1) :
           italic \in
             {replaceDelimited(bold, <<"_">>, <<"_">>, <<"_">>, 1) :
                bold \in
                  {replaceDelimited(mono, <<"*">>, <<"*", "*">>, <<"*", "*">>, 1) :
                     mono \in
                       {replaceDelimited(text, <<Backtick, Backtick, Backtick>>,
                                         <<Backtick>>, <<Backtick>>, 1)}}}} : TRUE

\* A store that keeps the message body as it was given.
whatsappMessageVerbatim(content) == content

\* markdown.ts whatsappMessageToMarkdown
whatsappMessageToMarkdown(content) ==
    IF content = <<>> THEN <<>>
    ELSE CHOOSE out \in {preserveWhatsAppFormatting(withLinks) :
                            withLinks \in {convertUrlsToMarkdownLinks(content)}} : TRUE

\* The event start times the extraction can produce: the hour and the UTC
\* offset of an ISO-8601 timestamp, "hh" followed by "Z" or by a sign and
\* "oo".  The date before them and the ":00" parts between and after them
\* are the same in every value and are left out.
StartAts == {<<"0", "9", "Z">>, <<"1", "0", "+", "0", "2">>, <<"1", "1", "Z">>}

DefaultStartAt == <<"0", "9", "Z">>
DefaultTitle   == "t1"
DefaultBody    == <<"e">>

\* Math.floor(Date.now() / 1000) at the calls of one client: the clock has
\* advanced by a second at each call.
ClockAt(c) == c
DefaultNow == 1

\* EventToSave: the extracted event (slug, title, startAt), the message
\* text and the message id.  title stands for the columns that are copied
\* as given: title, description, organizer, endAt, location type, address,
\* group JID and sender JID.
EventToSave(slug, mid, body, startAt) ==
    [slug |-> slug, title |-> DefaultTitle, startAt |-> startAt,
     messageBody |-> body, whatsappMessageId |-> mid]

\* A row of the events table: the surrogate key and the row data.
EventRow(id, data) ==
    [id |-> id, slug |-> data.slug, title |-> data.title,
     startAt |-> data.startAt, messageBody |-> data.messageBody,
     whatsappMessageId |-> data.whatsappMessageId,
     createdAt |-> data.createdAt, updatedAt |-> data.updatedAt]

\* Mutant: the update time runs ahead of the creation time.
insertEventFromInputTouched(input, now) ==
    [slug |-> input.slug, title |-> input.title, startAt |-> input.startAt,
     messageBody |-> whatsappMessageToMarkdown(input.messageBody),
     whatsappMessageId |-> input.whatsappMessageId,
     createdAt |-> now, updatedAt |-> now + 1]

\* insertEventFromInput: the row data of an EventToSave (the id is assigned
\* by the table).
insertEventFromInput(input, now) ==
    [slug |-> input.slug, title |-> input.title, startAt |-> input.startAt,
     messageBody |-> whatsappMessageToMarkdown(input.messageBody),
     whatsappMessageId |-> input.whatsappMessageId,
     createdAt |-> now, updatedAt |-> now]

\* Mutants of the UNIQUE constraints: only one of the two columns is unique.
UniqueViolationSlugOnly(table, data) ==
    \E r \in table : r.slug = data.slug

UniqueViolationMessageIdOnly(table, data) ==
    \E r \in table : r.whatsappMessageId = data.whatsappMessageId

\* schema.ts: slug ... .unique(), whatsapp_message_id ... .unique().
\* An insert fails with "UNIQUE constraint failed" when either column
\* already holds the new value.
UniqueViolation(table, data) ==
    \/ \E r \in table : r.slug = data.slug
    \/ \E r \in table : r.whatsappMessageId = data.whatsappMessageId

IdleCall == [op |-> "none", pc |-> "idle", slug |-> Null,
             whatsappMessageId |-> Null, result |-> "none",
             title |-> Null, startAt |-> <<>>, messageBody |-> <<>>, now |-> 0,
             found |-> <<>>, error |-> "none"]

\* Call ids are handed out in order.
CanIssue(c) ==
    /\ calls[c].pc = "idle"
    /\ IF c = 1 THEN TRUE ELSE calls[c - 1].pc # "idle"

\* saveEvent, up to the point where the insert statement is sent: the row
\* data is built first, with the time of the call.
saveEvent(c, input, now) ==
    /\ CanIssue(c)
    /\ calls' = [calls EXCEPT ![c] =
                   [IdleCall EXCEPT !.op = "saveEvent", !.pc = "pending",
                                    !.slug = input.slug,
                                    !.whatsappMessageId = input.whatsappMessageId,
                                    !.title = input.title,
                                    !.startAt = input.startAt,
                                    !.messageBody = input.messageBody,
                                    !.now = now]]
    /\ UNCHANGED <<rows, nextId>>

\* The messages an insert can reject with: the one of a UNIQUE failure, and
\* one of another failure.
UniqueConstraintFailed == "UNIQUE constraint failed"
DiskIoError            == "disk I/O error"

\* Mutant: every rejected insert is a storage error.
saveEventErrorGeneric(errorMsg) == "EventStorageError"

\* saveEvent's catch: errorMsg.includes("UNIQUE constraint failed")
saveEventError(errorMsg) ==
    IF errorMsg = UniqueConstraintFailed THEN "DuplicateEventError"
    ELSE "EventStorageError"

\* db.insert(events).values(data): the table evaluates the statement
\* atomically; saveEvent maps a UNIQUE failure to DuplicateEventError.
InsertExecuted(c) ==
    /\ calls[c].pc = "pending"
    /\ calls[c].op = "saveEvent"
    /\ LET data == insertEventFromInput(calls[c], calls[c].now)
       IN  IF UniqueViolation(rows, data)
           THEN /\ calls' = [calls EXCEPT
                               ![c].pc = "done",
                               ![c].error = UniqueConstraintFailed,
                               ![c].result = saveEventError(UniqueConstraintFailed)]
                /\ UNCHANGED <<rows, nextId>>
           ELSE /\ rows' = rows \cup {EventRow(nextId, data)}
                /\ nextId' = nextId + 1
                /\ calls' = [calls EXCEPT ![c].pc = "done", ![c].result = "ok"]

\* The insert promise rejects for another reason (the database cannot be
\* reached): saveEvent maps it to EventStorageError.
InsertFailed(c) ==
    /\ calls[c].pc = "pending"
    /\ calls[c].op = "saveEvent"
    /\ calls' = [calls EXCEPT ![c].pc = "done", ![c].error = DiskIoError,
                              ![c].result = saveEventError(DiskIoError)]
    /\ UNCHANGED <<rows, nextId>>

\* Every order of the rows of a table.
Orderings(table) ==
    {seq \in [1..Cardinality(table) -> table] :
        \A i, j \in 1..Cardinality(table) : seq[i] = seq[j] => i = j}

\* deleteEvent, up to the point where the delete statement is sent.
deleteEvent(c, slug) ==
    /\ CanIssue(c)
    /\ calls' = [calls EXCEPT ![c] =
                   [IdleCall EXCEPT !.op = "deleteEvent", !.pc = "pending",
                                    !.slug = slug]]
    /\ UNCHANGED <<rows, nextId>>

\* Mutant: the delete statement removes every row.
DeletedRowsAll(table, slug) == table

\* The rows that "where slug = ?" selects.
DeletedRows(table, slug) == {r \in table : r.slug = slug}

\* db.delete(events).where(eq(events.slug, slug)).returning(): the
\* statement returns the rows it deleted.
DeleteExecuted(c) ==
    /\ calls[c].pc = "pending"
    /\ calls[c].op = "deleteEvent"
    /\ LET hit == DeletedRows(rows, calls[c].slug)
       IN  /\ rows' = rows \ hit
           /\ \E returned \in Orderings(hit) :
                calls' = [calls EXCEPT
                            ![c].pc = "done",
                            ![c].found = returned,
                            ![c].result = IF Len(returned) = 0
                                          THEN "EventNotFoundError" ELSE "ok"]
    /\ UNCHANGED nextId

\* The delete promise rejects: deleteEvent maps it to EventStorageError.
DeleteFailed(c) ==
    /\ calls[c].pc = "pending"
    /\ calls[c].op = "deleteEvent"
    /\ calls' = [calls EXCEPT ![c].pc = "done", ![c].error = DiskIoError,
                              ![c].result = "EventStorageError"]
    /\ UNCHANGED <<rows, nextId>>

DigitChar(n) ==
    CASE n = 0 -> "0" [] n = 1 -> "1" [] n = 2 -> "2" [] n = 3 -> "3"
      [] n = 4 -> "4" [] n = 5 -> "5" [] n = 6 -> "6" [] n = 7 -> "7"
      [] n = 8 -> "8" [] n = 9 -> "9"

\* convertTimestampToIso: new Date(unixSeconds * 1000).toISOString(), for
\* the first seconds of the epoch.
convertTimestampToIso(unixSeconds) ==
    <<"1", "9", "7", "0", "-", "0", "1", "-", "0", "1", "T", "0", "0", ":",
      "0", "0", ":", "0", DigitChar(unixSeconds), ".", "0", "0", "0", "Z">>

\* The StoredEvent of a selected row: the row with both timestamps
\* converted.  toStoredEvent then decodes it, which succeeds for every row
\* the table can hold (the columns are NOT NULL and the location type of a
\* row is the one of a decoded Event).
StoredEvent(event) ==
    [event EXCEPT !.createdAt = convertTimestampToIso(event.createdAt),
                  !.updatedAt = convertTimestampToIso(event.updatedAt)]

\* The byte value of the characters of a start time.
Code(ch) ==
    CASE ch = "+" -> 43 [] ch = "-" -> 45 [] ch = "0" -> 48 [] ch = "1" -> 49
      [] ch = "2" -> 50 [] ch = "3" -> 51 [] ch = "4" -> 52 [] ch = "5" -> 53
      [] ch = "6" -> 54 [] ch = "7" -> 55 [] ch = "8" -> 56 [] ch = "9" -> 57
      [] ch = "Z" -> 90

\* The order of a TEXT column (start_at is text("start_at")): the values
\* are compared byte by byte, a proper prefix comes first.  -1, 0 or 1.
RECURSIVE textCompare(_, _)
textCompare(a, b) ==
    IF a = <<>> THEN (IF b = <<>> THEN 0 ELSE -1)
    ELSE IF b = <<>> THEN 1
    ELSE IF Code(Head(a)) < Code(Head(b)) THEN -1
    ELSE IF Code(Head(a)) > Code(Head(b)) THEN 1
    ELSE textCompare(Tail(a), Tail(b))

\* select().from(events).orderBy(asc(events.startAt)): the orders the
\* statement can return (rows with equal start_at come in any order).
OrderedByStartAt(table) ==
    {seq \in Orderings(table) :
        \A i, j \in 1..Cardinality(table) :
            i < j => textCompare(seq[i].startAt, seq[j].startAt) <= 0}

\* Mutant: the select statement ignores its where clause.
SelectedWhereAny(table, column, value) == table

\* select().from(events).where(eq(events.<column>, value))
SelectedWhere(table, column, value) ==
    IF column = "slug" THEN {r \in table : r.slug = value}
    ELSE {r \in table : r.whatsappMessageId = value}

\* findEventBySlug, up to the point where the select statement is sent.
findEventBySlug(c, slug) ==
    /\ CanIssue(c)
    /\ calls' = [calls EXCEPT ![c] =
                   [IdleCall EXCEPT !.op = "findEventBySlug", !.pc = "pending",
                                    !.slug = slug]]
    /\ UNCHANGED <<rows, nextId>>

\* findEventByWhatsAppMessageId, up to the point where the select statement
\* is sent.
findEventByWhatsAppMessageId(c, messageId) ==
    /\ CanIssue(c)
    /\ calls' = [calls EXCEPT ![c] =
                   [IdleCall EXCEPT !.op = "findEventByWhatsAppMessageId",
                                    !.pc = "pending",
                                    !.whatsappMessageId = messageId]]
    /\ UNCHANGED <<rows, nextId>>

\* listAllEvents, up to the point where the select statement is sent.
listAllEvents(c) ==
    /\ CanIssue(c)
    /\ calls' = [calls EXCEPT ![c] =
                   [IdleCall EXCEPT !.op = "listAllEvents", !.pc = "pending"]]
    /\ UNCHANGED <<rows, nextId>>

\* The select statement of a find (limit 1) or of the listing is executed
\* and its rows are converted.
SelectExecuted(c) ==
    /\ calls[c].pc = "pending"
    /\ calls[c].op \in {"findEventBySlug", "findEventByWhatsAppMessageId",
                        "listAllEvents"}
    /\ IF calls[c].op = "listAllEvents"
       THEN \E seq \in OrderedByStartAt(rows) :
              calls' = [calls EXCEPT
                          ![c].pc = "done", ![c].result = "ok",
                          ![c].found = [i \in DOMAIN seq |-> StoredEvent(seq[i])]]
       ELSE LET result == IF calls[c].op = "findEventBySlug"
                          THEN SelectedWhere(rows, "slug", calls[c].slug)
                          ELSE SelectedWhere(rows, "whatsappMessageId",
                                             calls[c].whatsappMessageId)
            IN  IF result = {}
                THEN calls' = [calls EXCEPT ![c].pc = "done",
                                            ![c].result = "EventNotFoundError"]
                ELSE \E event \in result :
                       calls' = [calls EXCEPT
                                   ![c].pc = "done", ![c].result = "ok",
                                   ![c].found = <<StoredEvent(event)>>]
    /\ UNCHANGED <<rows, nextId>>

\* The select promise rejects: the operation maps it to EventStorageError.
SelectFailed(c) ==
    /\ calls[c].pc = "pending"
    /\ calls[c].op \in {"findEventBySlug", "findEventByWhatsAppMessageId",
                        "listAllEvents"}
    /\ calls' = [calls EXCEPT ![c].pc = "done", ![c].error = DiskIoError,
                              ![c].result = "EventStorageError"]
    /\ UNCHANGED <<rows, nextId>>

InitStore ==
    /\ rows = {}
    /\ nextId = 1
    /\ calls = [c \in CallIds |-> IdleCall]

(***************************************************************************)
(* LLM STAGE CALL (src/openrouter.ts)                                      *)
(***************************************************************************)

MAX_RETRIES         == 3
BASE_RETRY_DELAY_MS == 1000

\* HTTP statuses the endpoint answers with: success, client errors, the
\* rate limit, and server errors inside and outside the retryable set.
Statuses == {200, 400, 401, 404, 429, 500, 501, 502, 503, 504}

\* The Retry-After header of a rate-limit response, in seconds (0: the
\* response has no such header).
RetryAfterHint == 30

\* What one request can come to: the timeout wins the race against fetch,
\* fetch rejects, or fetch resolves in time with a status, and the body,
\* which is read afterwards outside the race, parses or does not.  bodyLate
\* says that the body was read only after REQUEST_TIMEOUT_MS had passed
\* since the request was sent.
Outcomes ==
    {[kind |-> "timeout", status |-> 0, body |-> "none", bodyLate |-> FALSE,
      retryAfter |-> 0],
     [kind |-> "network", status |-> 0, body |-> "none", bodyLate |-> FALSE,
      retryAfter |-> 0]}
    \cup [kind : {"http"}, status : Statuses, body : {"valid", "malformed"},
          bodyLate : BOOLEAN, retryAfter : {0}]
    \cup [kind : {"http"}, status : {429}, body : {"valid"},
          bodyLate : {FALSE}, retryAfter : {RetryAfterHint}]

\* The attempt took longer than REQUEST_TIMEOUT_MS.
ExceedsTimeout(o) == o.kind = "timeout" \/ (o.kind = "http" /\ o.bodyLate)

\* A tagged error; only OpenRouterError carries a statusCode.
TaggedError(tag) ==
    [tag |-> tag, hasStatusCode |-> FALSE, statusCode |-> 0, retryAfter |-> 0]

OpenRouterError(status) ==
    [tag |-> "OpenRouterError", hasStatusCode |-> TRUE, statusCode |-> status,
     retryAfter |-> 0]

\* new RateLimitError({ retryAfter }): the parsed header, or undefined (0).
RateLimitError(retryAfter) ==
    [tag |-> "RateLimitError", hasStatusCode |-> FALSE, statusCode |-> 0,
     retryAfter |-> retryAfter]

RECURSIVE Pow(_, _)
Pow(b, n) == IF n = 0 THEN 1 ELSE b * Pow(b, n - 1)

\* isRetryableStatusCode
isRetryableStatusCode(status) ==
    \/ status = 429
    \/ status = 500
    \/ status = 502
    \/ status = 503
    \/ status = 504

\* isRetryableError
isRetryableError(error) ==
    \/ error.tag = "RateLimitError"
    \/ /\ error.tag = "OpenRouterError"
       /\ error.hasStatusCode
       /\ isRetryableStatusCode(error.statusCode)

\* postChatCompletion: the Either a single request yields.  Right carries
\* the content, Left the tagged error.
postChatCompletion(o) ==
    IF o.kind = "timeout" THEN [right |-> FALSE, error |-> TaggedError("TimeoutError")]
    ELSE IF o.kind = "network" THEN [right |-> FALSE, error |-> TaggedError("NetworkError")]
    ELSE IF o.status # 200
         THEN IF o.status = 404
              THEN [right |-> FALSE, error |-> TaggedError("ModelNotFoundError")]
              ELSE IF o.status = 429
              THEN [right |-> FALSE, error |-> RateLimitError(o.retryAfter)]
              ELSE [right |-> FALSE, error |-> OpenRouterError(o.status)]
    ELSE IF o.body = "malformed"
         THEN [right |-> FALSE, error |-> TaggedError("SchemaValidationError")]
         ELSE [right |-> TRUE, error |-> TaggedError("none")]

\* Mutant of the backoff: the exponent is the attempt, not attempt - 1.
RetryDelayMsFromAttempt(attempt) == BASE_RETRY_DELAY_MS * Pow(2, attempt)

\* delayMs = BASE_RETRY_DELAY_MS * Math.pow(2, attempt - 1)
RetryDelayMs(attempt) == BASE_RETRY_DELAY_MS * Pow(2, attempt - 1)

\* Mutant of the backoff: a rate-limit response that names a delay is
\* waited out for that delay.
delayHonoringRetryAfter(error, attempt) ==
    IF error.retryAfter > 0 THEN error.retryAfter * 1000 ELSE RetryDelayMs(attempt)

\* The wait before the retry that follows a failed attempt: delayMs is
\* computed from attempt alone, the error is only named in the warning.
delayBeforeRetry(error, attempt) == RetryDelayMs(attempt)

\* Mutant of the retry guard: every failure is retried.
ShouldRetryAnyError(error, attempt) == attempt <= MAX_RETRIES

\* isRetryableError(error) && attempt <= MAX_RETRIES
ShouldRetry(error, attempt) == isRetryableError(error) /\ attempt <= MAX_RETRIES

\* postChatCompletionWithRetry, one attempt: the request and what the
\* function does with its result.
Attempt(o) ==
    /\ llm.pc = "request"
    /\ LET result == postChatCompletion(o)
           base   == [llm EXCEPT !.responses = Append(llm.responses, o),
                                 !.requests = llm.requests + 1]
       IN  IF result.right
           THEN llm' = [base EXCEPT !.pc = "succeeded"]
           ELSE IF ShouldRetry(result.error, llm.attempt)
           THEN llm' = [base EXCEPT !.pc = "sleeping",
                                    !.delayMs = delayBeforeRetry(result.error, llm.attempt),
                                    !.error = result.error]
           ELSE llm' = [base EXCEPT !.pc = "failed", !.error = result.error]

\* Effect.sleep(delayMs) is over: the recursive call with attempt + 1.
RetryAfterSleep ==
    /\ llm.pc = "sleeping"
    /\ llm' = [llm EXCEPT !.pc = "request",
                          !.attempt = llm.attempt + 1,
                          !.waits = Append(llm.waits, llm.delayMs)]

InitLlm ==
    llm = [pc |-> "request", attempt |-> 1, requests |-> 0, delayMs |-> 0,
           waits |-> <<>>, responses |-> <<>>,
           error |-> TaggedError("none")]

(***************************************************************************)
(* ALLOW-LIST AND GROUP SELECTION (src/config.ts, index.ts)                *)
(***************************************************************************)

\* Bound: handleConnected fibers that can be waiting at the same time.
MaxSelecting == 2

\* A JID is user@server; a group JID is one whose server is g.us.
Jid(user, server) == [user |-> user, server |-> server]
NullJid   == Jid("", "")
GroupJids == {Jid("g1", "g.us"), Jid("g2", "g.us")}
OtherJids == {Jid("u1", "s.whatsapp.net")}

\* jid.endsWith("@g.us")
endsWithGUs(jid) == jid.server = "g.us"

DiscoveryConfig == [mode |-> "discovery", allowedGroupJids |-> <<>>]
MonitorConfig(jids) == [mode |-> "monitor", allowedGroupJids |-> jids]

\* What loadConfig can return: discovery, or monitor with a non-empty list
\* of valid group JIDs.
LoadedConfigs ==
    {DiscoveryConfig}
    \cup {MonitorConfig(<<g>>) : g \in GroupJids}
    \cup {MonitorConfig(<<p[1], p[2]>>) :
            p \in {q \in GroupJids \X GroupJids : q[1] # q[2]}}

Running == exitCode = {}

\* Forked effects run up to their first asynchronous boundary from the
\* microtask queue, before the event loop delivers the next socket event,
\* timer or I/O completion.
Quiescent == fibers = <<>>

\* handleConnected, first part: Ref.get(configRef); in discovery mode the
\* fiber goes on to listAllGroups(socket).
handleConnected ==
    /\ Running
    /\ IF configRef.mode = "discovery"
       THEN selecting' = [selecting EXCEPT !.listing = selecting.listing + 1]
       ELSE UNCHANGED selecting
    /\ UNCHANGED <<configRef, exitCode>>

\* handleConnected, listAllGroups has answered: no group ends the process
\* with exit code 1, otherwise selectGroupInteractively starts.
groupsListed(found) ==
    /\ Running
    /\ Quiescent
    /\ selecting.listing > 0
    /\ IF found
       THEN /\ selecting' = [selecting EXCEPT !.listing = selecting.listing - 1,
                                              !.choosing = selecting.choosing + 1]
            /\ UNCHANGED exitCode
       ELSE /\ selecting' = [selecting EXCEPT !.listing = selecting.listing - 1]
            /\ exitCode' = {1}
    /\ UNCHANGED configRef

\* A value with the mode of the selection and the list of the value it
\* replaces: what a write in two steps would let a reader see.
SelectedConfigModeOnly(g) == [mode |-> "monitor", allowedGroupJids |-> <<>>]

\* monitorConfig = { mode: "monitor", allowedGroupJids: [selectedGroup.id] }
SelectedConfig(g) == MonitorConfig(<<g>>)

\* handleConnected, the operator has chosen: Ref.set(configRef, monitorConfig).
groupSelected(g) ==
    /\ Running
    /\ Quiescent
    /\ selecting.choosing > 0
    /\ selecting' = [selecting EXCEPT !.choosing = selecting.choosing - 1,
                                      !.writes = selecting.writes + 1]
    /\ configRef' = SelectedConfig(g)
    /\ UNCHANGED exitCode

\* handleConnected, the operator has cancelled the selection: the fiber
\* fails with "User cancelled selection" and writes nothing.
selectionCancelled ==
    /\ Running
    /\ Quiescent
    /\ selecting.choosing > 0
    /\ selecting' = [selecting EXCEPT !.choosing = selecting.choosing - 1]
    /\ UNCHANGED <<configRef, exitCode>>

(***************************************************************************)
(* MESSAGE TASKS (src/message-handler.ts, src/types.ts)                    *)
(***************************************************************************)

\* Bound: message tasks dispatched in one run.
MaxTasks == 2

TaskIds == 1..MaxTasks

\* The raw envelopes: one without key, one without message body, and the
\* complete ones by their key.remoteJid (a group, a user, or absent).
Envelopes ==
    {[hasKey |-> FALSE, hasMessage |-> TRUE, remoteJid |-> NullJid],
     [hasKey |-> TRUE, hasMessage |-> FALSE, remoteJid |-> Jid("g1", "g.us")]}
    \cup [hasKey : {TRUE}, hasMessage : {TRUE},
          remoteJid : GroupJids \cup OtherJids \cup {NullJid}]

NoEnvelope == [hasKey |-> FALSE, hasMessage |-> FALSE, remoteJid |-> NullJid]
NoMessage  == [groupJid |-> NullJid, fromJid |-> NullJid]

\* A task before it is forked.  The fields after message are those of the
\* pipeline: the text the message carries, what the two LLM stages were
\* answered (answer, body) and returned (classified, extracted), the stages
\* that have sent an LLM request, the storage call issued (0: none) and the
\* branch on which processMessageForEvent returned.  socket is the socket
\* whose messages.upsert handler forked the task (0: not recorded).  author
\* is message.author as the test before saveEvent found it ("unread" before
\* that test, "null" when the envelope had no participant).
IdleTask == [pc |-> "idle", envelope |-> NoEnvelope, config |-> DiscoveryConfig,
             message |-> NoMessage,
             hasContent |-> FALSE, content |-> <<>>,
             answer |-> "none", classified |-> "none",
             body |-> "none", extracted |-> "none", requested |-> {},
             call |-> 0, reason |-> "none", socket |-> 0, author |-> "unread"]

\* Mutant of the parser: an envelope without message body is accepted.
createMessageFromProtoWithoutBody(env) ==
    IF ~env.hasKey THEN [ok |-> FALSE, reason |-> "MissingKey", message |-> NoMessage]
    ELSE LET isGroup == IF env.remoteJid = NullJid THEN FALSE ELSE endsWithGUs(env.remoteJid)
         IN  [ok |-> TRUE, reason |-> "none",
              message |-> [groupJid |-> IF isGroup THEN env.remoteJid ELSE NullJid,
                           fromJid |-> env.remoteJid]]

\* createMessageFromProto: the parse error, or the canonical message
\* (the fields the filter reads).
createMessageFromProto(env) ==
    IF ~env.hasKey THEN [ok |-> FALSE, reason |-> "MissingKey", message |-> NoMessage]
    ELSE IF ~env.hasMessage THEN [ok |-> FALSE, reason |-> "MissingMessage", message |-> NoMessage]
    ELSE LET isGroup == IF env.remoteJid = NullJid THEN FALSE ELSE endsWithGUs(env.remoteJid)
         IN  [ok |-> TRUE, reason |-> "none",
              message |-> [groupJid |-> IF isGroup THEN env.remoteJid ELSE NullJid,
                           fromJid |-> env.remoteJid]]

\* isGroupMessage
isGroupMessage(message) == message.groupJid # NullJid

\* isGroupAllowed (config.ts)
isGroupAllowed(config, groupJid) ==
    config.mode = "monitor" /\ groupJid \in Range(config.allowedGroupJids)

\* Mutant of the filter: every group message is admitted in monitor mode.
FilterAdmitsAnyGroup(config, message) ==
    ~(config.mode = "discovery" \/ ~isGroupMessage(message))

\* handleIncomingMessage: the two early returns before the pipeline.
FilterAdmits(config, message) ==
    /\ ~(config.mode = "discovery" \/ ~isGroupMessage(message))
    /\ message.groupJid \in Range(config.allowedGroupJids)

\* createMessageHandler: the messages.upsert callback forks one task per
\* envelope (Effect.runFork).  Task ids are handed out in order.
Dispatch(t, env) ==
    /\ Running
    /\ tasks[t].pc = "idle"
    /\ IF t = 1 THEN TRUE ELSE tasks[t - 1].pc # "idle"
    /\ tasks' = [tasks EXCEPT ![t] = [IdleTask EXCEPT !.pc = "forked", !.envelope = env]]

\* handleIncomingMessage: const config = yield* Ref.get(configRef)
ReadConfig(t) ==
    /\ Running
    /\ tasks[t].pc = "forked"
    /\ tasks' = [tasks EXCEPT ![t].pc = "normalizing", ![t].config = configRef]

\* Mutant of the filter: the allow-list is read again when the filter runs.
configAtFilter(t) == configRef

\* The configuration the filter tests: the value Ref.get returned at the
\* start of handleIncomingMessage.
configOfTask(t) == tasks[t].config

\* handleIncomingMessage: createMessageFromProto (which may wait for a media
\* download), then the filter, then the hand-over to processMessageForEvent.
Normalize(t) ==
    /\ Running
    /\ tasks[t].pc = "normalizing"
    /\ LET parsed == createMessageFromProto(tasks[t].envelope)
       IN  IF ~parsed.ok
           THEN tasks' = [tasks EXCEPT ![t].pc = "dropped_parse"]
           ELSE IF FilterAdmits(configOfTask(t), parsed.message)
           THEN tasks' = [tasks EXCEPT ![t].pc = "pipeline", ![t].message = parsed.message]
           ELSE tasks' = [tasks EXCEPT ![t].pc = "dropped_filter", ![t].message = parsed.message]

InitHandler ==
    /\ configRef \in LoadedConfigs
    /\ selecting = [listing |-> 0, choosing |-> 0, writes |-> 0]
    /\ tasks = [t \in TaskIds |-> IdleTask]

(***************************************************************************)
(* EVENT PIPELINE (src/message-handler.ts, src/openrouter.ts)              *)
(***************************************************************************)

\* The texts a message can carry, as sequences of characters: " " stands
\* for a whitespace character, "e" for any other.  A message without a text
\* field behaves as the empty text.
Texts == {<<>>, <<" ">>, <<" ", "e", " ">>}

\* extractContent: an empty (or absent) text is falsy and gives null.
extractContent(text) ==
    IF text = <<>> THEN [hasContent |-> FALSE, content |-> <<>>]
                   ELSE [hasContent |-> TRUE, content |-> text]

\* String.prototype.trim
RECURSIVE trim(_)
trim(text) ==
    IF text = <<>> THEN text
    ELSE IF Head(text) = " " THEN trim(Tail(text))
    ELSE IF text[Len(text)] = " " THEN trim(SubSeq(text, 1, Len(text) - 1))
    ELSE text

\* Mutant of the blank test: the text is measured without trimming it.
isBlankUntrimmed(text) == Len(text) = 0

\* classifyMessage: !text || text.trim().length === 0
isBlank(text) == Len(trim(text)) = 0

\* postChatCompletionWithRetry as a relation: every way a stage call
\* entered with this attempt number can end, with the number of the last
\* request sent.
RECURSIVE postChatCompletionWithRetry(_)
postChatCompletionWithRetry(attempt) ==
    UNION {LET result == postChatCompletion(o)
           IN  IF result.right
               THEN {[right |-> TRUE, tag |-> "none", requests |-> attempt]}
               ELSE IF ShouldRetry(result.error, attempt)
               THEN postChatCompletionWithRetry(attempt + 1)
               ELSE {[right |-> FALSE, tag |-> result.error.tag, requests |-> attempt]}
           : o \in Outcomes}

\* Every way a stage call can end, by what the pipeline reads of it: the
\* Either and the number of requests sent (the callers wrap every error
\* into one ClassificationError or ExtractionError).
StageCallResults ==
    {[right |-> r.right, requests |-> r.requests] : r \in postChatCompletionWithRetry(1)}

\* What the model answers to the classification prompt, after cleaning:
\* one of the two literals of ClassificationResponseSchema, or anything else.
ClassificationAnswers == {"1", "0", "other"}

\* Mutant of the classification: every decoded answer counts as an event.
classifiedAsEventAlways(answer) == TRUE

\* classifyMessage: validResponse === "1"
classifiedAsEvent(answer) == answer = "1"

\* What the model answers to the extraction prompt, after cleaning: JSON
\* of an event, JSON of another shape, or text that is not JSON.
ExtractionBodies == {"event", "wrong_shape", "not_json"}

\* Mutant of the extraction: any JSON value is taken as an event.
decodesAsEventAnyJson(body) == body # "not_json"

\* extractEvent: Schema.parseJson, then Schema.decodeUnknown(EventSchema).
decodesAsEvent(body) == body = "event"

\* Mutant of the error handling: a storage error ends the process.
exitOnStorageError(reason) == IF reason = "storage_error" THEN {1} ELSE {}

\* What a return of processMessageForEvent, or the catchAll of
\* handleIncomingMessage, does to the process: every branch logs and
\* returns, none calls process.exit.
exitOnTaskEnd(reason) == {}

\* The task ends on the named branch.
endTask(t, task, reason) ==
    /\ tasks' = [tasks EXCEPT ![t] = [task EXCEPT !.pc = "ended", !.reason = reason]]
    /\ exitCode' = exitCode \cup exitOnTaskEnd(reason)

\* processMessageForEvent, up to the classification call: a message
\* without content is dropped.  The text of the message is drawn here,
\* where it is first read.
processMessageForEvent(t, text) ==
    /\ Running
    /\ tasks[t].pc = "pipeline"
    /\ LET c    == extractContent(text)
           task == [tasks[t] EXCEPT !.hasContent = c.hasContent, !.content = c.content]
       IN  IF ~c.hasContent
           THEN endTask(t, task, "no_content")
           ELSE /\ tasks' = [tasks EXCEPT ![t] = [task EXCEPT !.pc = "classifying"]]
                /\ UNCHANGED exitCode

\* classifyMessage and the branches of processMessageForEvent on its
\* result: a blank text is "not an event" without a request; otherwise one
\* stage call, whose failure or undecodable answer is a ClassificationError.
classifyMessage(t, r, answer) ==
    /\ Running
    /\ tasks[t].pc = "classifying"
    /\ IF isBlank(tasks[t].content)
       THEN endTask(t, [tasks[t] EXCEPT !.classified = "not_event"], "not_event")
       ELSE LET task == [tasks[t] EXCEPT !.requested =
                               IF r.requests > 0
                               THEN tasks[t].requested \cup {"classifyMessage"}
                               ELSE tasks[t].requested]
            IN  IF ~r.right
                THEN endTask(t, [task EXCEPT !.classified = "failed"],
                             "classification_failed")
                ELSE IF answer \notin {"0", "1"}
                THEN endTask(t, [task EXCEPT !.answer = answer,
                                             !.classified = "failed"],
                             "classification_failed")
                ELSE IF ~classifiedAsEvent(answer)
                THEN endTask(t, [task EXCEPT !.answer = answer,
                                             !.classified = "not_event"],
                             "not_event")
                ELSE /\ tasks' = [tasks EXCEPT ![t] =
                                    [task EXCEPT !.pc = "extracting",
                                                 !.answer = answer,
                                                 !.classified = "event"]]
                     /\ UNCHANGED exitCode

\* extractEvent and the branch of processMessageForEvent on its result:
\* one stage call; its failure, a body that is not JSON or JSON that is not
\* an event is an ExtractionError.
extractEvent(t, r, body) ==
    /\ Running
    /\ tasks[t].pc = "extracting"
    /\ LET task == [tasks[t] EXCEPT !.requested =
                          IF r.requests > 0
                          THEN tasks[t].requested \cup {"extractEvent"}
                          ELSE tasks[t].requested]
       IN  IF ~r.right
           THEN endTask(t, [task EXCEPT !.extracted = "failed"], "extraction_failed")
           ELSE IF ~decodesAsEvent(body)
           THEN endTask(t, [task EXCEPT !.body = body, !.extracted = "failed"],
                        "extraction_failed")
           ELSE /\ tasks' = [tasks EXCEPT ![t] =
                               [task EXCEPT !.pc = "extracted", !.body = body,
                                            !.extracted = "event"]]
                /\ UNCHANGED exitCode

\* Mutant of the test before saveEvent: only the group JID is required.
missingGroupOnly(message, hasAuthor) == message.groupJid = NullJid

\* if (!message.groupJid || !message.author)
missingGroupOrAuthor(message, hasAuthor) ==
    message.groupJid = NullJid \/ ~hasAuthor

\* processMessageForEvent after the extraction: without group JID or author
\* nothing is saved; otherwise saveEvent is called with the event's slug and
\* the message's id (key.id ?? ""), both drawn here.
saveExtractedEvent(t, c, hasAuthor, slug, mid) ==
    /\ Running
    /\ tasks[t].pc = "extracted"
    /\ LET task == [tasks[t] EXCEPT !.author = IF hasAuthor THEN "present" ELSE "null"]
       IN  IF missingGroupOrAuthor(task.message, hasAuthor)
           THEN /\ endTask(t, task, "missing_author")
                /\ UNCHANGED storeVars
           ELSE /\ saveEvent(c, EventToSave(slug, mid, task.content, DefaultStartAt),
                             DefaultNow)
                /\ tasks' = [tasks EXCEPT ![t] = [task EXCEPT !.pc = "saving", !.call = c]]
                /\ UNCHANGED exitCode

\* The insert of the task's saveEvent settles and processMessageForEvent
\* runs to its end: a duplicate is logged at debug level, any other failure
\* as an error, a success as info.
saveReturned(t, rejected) ==
    /\ Running
    /\ tasks[t].pc = "saving"
    /\ IF rejected THEN InsertFailed(tasks[t].call) ELSE InsertExecuted(tasks[t].call)
    /\ LET result == calls'[tasks[t].call].result
       IN  endTask(t, tasks[t],
                   IF result = "ok" THEN "saved"
                   ELSE IF result = "DuplicateEventError" THEN "duplicate"
                   ELSE "storage_error")

(***************************************************************************)
(* CONNECTION MANAGER (src/connection.ts, index.ts)                        *)
(***************************************************************************)

BASE_RECONNECT_DELAY_MS == 2500
MAX_RECONNECT_RETRIES   == 5

\* Bound: sockets made in one run.
MaxSockets == 8

\* lastDisconnect.error.output.statusCode, by the name Baileys gives it in
\* DisconnectReason; "undefined" when the update carries no error.
DisconnectReasons ==
    {"loggedOut", "connectionClosed", "connectionLost", "connectionReplaced",
     "restartRequired", "undefined"}

\* The connection.update events a socket emits: a connection change (with
\* the disconnect reason on close), or an update without connection field,
\* which is the authentication challenge when it carries a QR code.
Updates ==
    [connection : {"connecting", "open"}, reason : {"undefined"}, qr : {FALSE}]
    \cup [connection : {"close"}, reason : DisconnectReasons, qr : {FALSE}]
    \cup [connection : {"undefined"}, reason : {"undefined"}, qr : BOOLEAN]

\* Mutant: the logged-out reason is not told apart from the others.
determineConnectionStateNoLogout(update) ==
    IF update.connection = "close"
    THEN [tag |-> "DisconnectedWithReconnect",
          isConflict |-> update.reason = "connectionClosed"]
    ELSE IF update.connection = "open"
    THEN [tag |-> "Connected", isConflict |-> FALSE]
    ELSE [tag |-> "Connecting", isConflict |-> FALSE]

\* determineConnectionState
determineConnectionState(update) ==
    IF update.connection = "close"
    THEN IF update.reason = "loggedOut"
         THEN [tag |-> "LoggedOut", isConflict |-> FALSE]
         ELSE [tag |-> "DisconnectedWithReconnect",
               isConflict |-> update.reason = "connectionClosed"]
    ELSE IF update.connection = "open"
    THEN [tag |-> "Connected", isConflict |-> FALSE]
    ELSE [tag |-> "Connecting", isConflict |-> FALSE]

\* A delay in milliseconds as a fraction num / den (2.5^n is 5^n / 2^n).
Delay(num, den) == [num |-> num, den |-> den]

\* Mutant: the delay handed over by connection.ts (always the base delay).
ReconnectDelayBaseOnly(n) == Delay(BASE_RECONNECT_DELAY_MS, 1)

\* delay = BASE_RECONNECT_DELAY_MS * Math.pow(2.5, reconnectRetryCount)
ReconnectDelay(n) == Delay(BASE_RECONNECT_DELAY_MS * Pow(5, n), Pow(2, n))

\* Mutant: the bound is checked after the increment is allowed once more.
RetriesExhaustedLate(count) == count > MAX_RECONNECT_RETRIES + 1

\* reconnectRetryCount > MAX_RECONNECT_RETRIES
RetriesExhausted(count) == count > MAX_RECONNECT_RETRIES

\* Mutant: the Connected case leaves the counter as it is.
CounterAfterConnectedKept(count) == count

\* handleConnectionChange, case "Connected": reconnectRetryCount = 0
CounterAfterConnected(count) == 0

\* Mutant: the timer is periodic (setInterval) and stays armed.
TimersAfterFiringPeriodic(pending) == pending

\* setTimeout: a timer that has fired is gone.
TimersAfterFiring(pending) == Tail(pending)

Fiber(kind, tag) == [kind |-> kind, tag |-> tag]

\* A reconnect as the operator is told of it, or as the scheduler does it:
\* the delay and the number of the attempt.
Announcement(delay, attempt) == <<delay, attempt>>
NoAnnouncement == <<>>

\* connection.update handler: callbacks.onStateChange(state, 0)
StateChangeRetryCount == 0

\* handleConnectionChange, case "DisconnectedWithReconnect": the warning
\* gives BASE_RECONNECT_DELAY_MS * 2.5^retryCount as seconds and
\* retryCount + 1 as the attempt, both from its retryCount argument.
announcedReconnect(retryCount) ==
    Announcement(ReconnectDelay(retryCount), retryCount + 1)

\* Mutant: a disconnect flagged as a conflict is not reconnected.
shouldReconnectUnlessConflict(state) ==
    state.tag = "DisconnectedWithReconnect" /\ ~state.isConflict

\* connection.update handler: if (state._tag === "DisconnectedWithReconnect")
shouldReconnect(state) == state.tag = "DisconnectedWithReconnect"

\* Mutant: the handler goes on to the state change whatever the update.
returnsEarlyNever(update) == FALSE

\* connection.update handler: if (connection === undefined) return
returnsEarly(update) == update.connection = "undefined"

ActiveSockets == {i \in DOMAIN sockets : sockets[i] \in {"connecting", "open"}}

\* onReconnect (index.ts): exit when the retries are exhausted, otherwise
\* compute the delay, count the retry and arm the timer.  forked are the
\* pending fibers, seen the history record of the event being handled.
onReconnect(forked, seen) ==
    IF RetriesExhausted(reconnectRetryCount)
    THEN /\ fibers' = Append(forked, Fiber("exit", "none"))
         /\ UNCHANGED <<reconnectRetryCount, timers>>
         /\ connLog' = [seen EXCEPT !.reconnectCalls = connLog.reconnectCalls + 1]
    ELSE LET delay == ReconnectDelay(reconnectRetryCount)
         IN  /\ reconnectRetryCount' = reconnectRetryCount + 1
             /\ timers' = Append(timers, delay)
             /\ fibers' = forked
             /\ connLog' = [seen EXCEPT
                              !.reconnectCalls = connLog.reconnectCalls + 1,
                              !.scheduled = connLog.scheduled + 1,
                              !.used = Announcement(delay, reconnectRetryCount + 1),
                              !.delaysSinceConnected = Append(connLog.delaysSinceConnected, delay)]

\* Mutant: a group query outlives its socket and can still be answered.
listingsKeptOnClose(update) == selecting

\* listAllGroups: socket.groupFetchAllParticipating() is a query on the
\* socket; when the socket closes, the transport rejects the queries it has
\* not answered, the catch makes the Error and the handleConnected fiber
\* that was waiting ends with it, before its groups.length test.
listingsAfterUpdate(update) ==
    IF update.connection = "close"
    THEN [selecting EXCEPT !.listing = 0]
    ELSE selecting

\* The connection.update handler registered by connectToWhatsApp, for an
\* event of socket i.  A closed socket emits nothing more; open follows
\* connecting.
connectionUpdate(i, update) ==
    /\ Running
    /\ Quiescent
    /\ i \in ActiveSockets
    /\ update.connection = "open" => sockets[i] = "connecting"
    /\ update.connection = "connecting" => sockets[i] = "connecting"
    /\ IF returnsEarly(update)
       THEN /\ fibers' = IF update.qr
                         THEN Append(fibers, Fiber("displayQRCode", "none"))
                         ELSE fibers
            /\ UNCHANGED <<reconnectRetryCount, sockets, timers, exitCode, connLog>>
       ELSE LET state  == determineConnectionState(update)
                shown  == IF update.qr
                          THEN Append(fibers, Fiber("displayQRCode", "none"))
                          ELSE fibers
                forked == Append(shown, Fiber("handleConnectionChange", state.tag))
                seen   == [connLog EXCEPT
                             !.lastState = state.tag,
                             !.lastReason = update.reason,
                             !.used = NoAnnouncement,
                             !.announced = NoAnnouncement,
                             !.closes = IF update.connection = "close"
                                        THEN connLog.closes + 1 ELSE connLog.closes]
            IN  /\ exitCode' = exitCode
                /\ sockets' = [sockets EXCEPT ![i] =
                                 CASE update.connection = "close" -> "closed"
                                   [] update.connection = "open" -> "open"
                                   [] OTHER -> sockets[i]]
                /\ CASE shouldReconnect(state) ->
                          onReconnect(forked, seen)
                     [] state.tag = "Connected" ->
                          /\ fibers' = Append(forked, Fiber("handleConnected", "none"))
                          /\ connLog' = [seen EXCEPT !.everConnected = TRUE,
                                                     !.delaysSinceConnected = <<>>]
                          /\ UNCHANGED <<reconnectRetryCount, timers>>
                     [] OTHER ->
                          /\ fibers' = forked
                          /\ connLog' = seen
                          /\ UNCHANGED <<reconnectRetryCount, timers>>
    /\ selecting' = listingsAfterUpdate(update)
    /\ UNCHANGED configRef

\* The fiber forked by handleConnectionChange(state, retryCount).
runHandleConnectionChange ==
    /\ Running
    /\ fibers # <<>>
    /\ Head(fibers).kind = "handleConnectionChange"
    /\ fibers' = Tail(fibers)
    /\ reconnectRetryCount' =
         IF Head(fibers).tag = "Connected"
         THEN CounterAfterConnected(reconnectRetryCount)
         ELSE reconnectRetryCount
    /\ connLog' =
         IF Head(fibers).tag = "DisconnectedWithReconnect"
         THEN [connLog EXCEPT !.announced = announcedReconnect(StateChangeRetryCount)]
         ELSE connLog
    /\ UNCHANGED <<sockets, timers, exitCode, configRef, selecting>>

\* The fiber forked for displayQRCode(qr): it logs and prints the code.
runDisplayQRCode ==
    /\ fibers # <<>>
    /\ Head(fibers).kind = "displayQRCode"
    /\ fibers' = Tail(fibers)
    /\ UNCHANGED <<reconnectRetryCount, sockets, timers, exitCode, connLog,
                   configRef, selecting>>

\* The fiber forked by onConnected: handleConnected(socket, configRef).
runHandleConnected ==
    /\ fibers # <<>>
    /\ Head(fibers).kind = "handleConnected"
    /\ fibers' = Tail(fibers)
    /\ handleConnected
    /\ UNCHANGED <<reconnectRetryCount, sockets, timers, connLog>>

\* The fiber forked by onReconnect when the retries are exhausted:
\* logError(...) and process.exit(1).
runExit ==
    /\ Running
    /\ fibers # <<>>
    /\ Head(fibers).kind = "exit"
    /\ fibers' = Tail(fibers)
    /\ exitCode' = {1}
    /\ connLog' = [connLog EXCEPT !.loggedMaxRetries = TRUE]
    /\ UNCHANGED <<reconnectRetryCount, sockets, timers, configRef, selecting>>

\* What a listener instance is built from: the allow-list reference its
\* handlers read and write, and the layer that provides the extraction
\* service and the event storage to everything it forks.
Listener(ref, layer) == [configRef |-> ref, layer |-> layer]

\* program: configRef = makeConfigRef(), then startWhatsAppListener(configRef)
\* with the handlers provided by AppLayer.
FirstListener == Listener("configRef", "AppLayer")

\* Mutant: the reconnect loads the configuration into a new reference.
listenerWithFreshRef(previous) == Listener("fresh", "AppLayer")

\* The timer callback of onReconnect: it calls startWhatsAppListener with
\* the configRef of the closure it was made in, and the new instance names
\* the module constant AppLayer wherever the previous one did.
listenerOnReconnect(previous) == Listener(previous.configRef, "AppLayer")

\* The reconnect timer fires: startWhatsAppListener(configRef) makes a new
\* socket and registers the handlers on it.
startWhatsAppListener ==
    /\ Running
    /\ Quiescent
    /\ timers # <<>>
    /\ Len(sockets) < MaxSockets
    /\ timers' = TimersAfterFiring(timers)
    /\ sockets' = Append(sockets, "connecting")
    /\ connLog' = [connLog EXCEPT !.listeners =
                      Append(connLog.listeners,
                             listenerOnReconnect(connLog.listeners[Len(connLog.listeners)]))]
    /\ UNCHANGED <<reconnectRetryCount, fibers, exitCode, configRef, selecting>>

\* Bound: saveCreds calls that have not settled yet.
MaxCredsWrites == 1

\* Bound: sockets made in a run that is followed message by message.
MaxSessions == 2

\* Mutant: a close interrupts the tasks that the closed socket forked.
tasksInterruptedOnClose(i, update) ==
    [t \in TaskIds |->
        IF update.connection = "close" /\ tasks[t].socket = i
              /\ tasks[t].pc \notin {"idle", "ended", "dropped_parse", "dropped_filter"}
        THEN [tasks[t] EXCEPT !.pc = "ended", !.reason = "interrupted"]
        ELSE tasks[t]]

\* What a connection.update of socket i does to the message tasks: nothing.
\* The tasks are forked with Effect.runFork on the default runtime and are
\* not tied to the socket or to the listener that made it.
tasksAfterConnectionUpdate(i, update) == tasks

\* The messages.upsert handler registered by connectToWhatsApp on socket i:
\* processMessages hands every envelope to the message handler, which
\* forks its task.
messagesUpsert(i, t, env) ==
    /\ Running
    /\ Quiescent
    /\ sockets[i] = "open"
    /\ tasks[t].pc = "idle"
    /\ IF t = 1 THEN TRUE ELSE tasks[t - 1].pc # "idle"
    /\ tasks' = [tasks EXCEPT ![t] = [IdleTask EXCEPT !.pc = "forked",
                                                      !.envelope = env,
                                                      !.socket = i]]

\* The tasks forked so far; task ids are handed out in order.
Forked == {t \in TaskIds : tasks[t].pc # "idle"}

\* Mutant: the batch is worked through one message at a time, the next
\* message being handed over when the task of the one before has ended.
forkedFirstOfBatch(i, batch) ==
    [t \in TaskIds |->
        IF t = Cardinality(Forked) + 1
        THEN [IdleTask EXCEPT !.pc = "forked", !.envelope = batch[1], !.socket = i]
        ELSE tasks[t]]

\* processMessages: Effect.forEach(event.messages, (message) =>
\* Effect.sync(() => handler(socket, message))); the handler returns as soon
\* as it has forked the task of its message, so the whole batch is forked
\* in the turn of the event.
forkedForBatch(i, batch) ==
    [t \in TaskIds |->
        IF t > Cardinality(Forked) /\ t <= Cardinality(Forked) + Len(batch)
        THEN [IdleTask EXCEPT !.pc = "forked",
                              !.envelope = batch[t - Cardinality(Forked)],
                              !.socket = i]
        ELSE tasks[t]]

\* The messages.upsert handler for an event that carries a batch of
\* envelopes.
messagesUpsertBatch(i, batch) ==
    /\ Running
    /\ Quiescent
    /\ sockets[i] = "open"
    /\ Cardinality(Forked) + Len(batch) <= MaxTasks
    /\ tasks' = forkedForBatch(i, batch)
    /\ connLog' = [connLog EXCEPT !.upserted = connLog.upserted + Len(batch)]
    /\ UNCHANGED <<reconnectRetryCount, sockets, timers, fibers, exitCode,
                   configRef, selecting>>

\* The creds.update handler registered by connectToWhatsApp: it forks
\* Effect.tryPromise(saveCreds), which runs up to the call of saveCreds().
credsUpdate(i) ==
    /\ Running
    /\ Quiescent
    /\ i \in ActiveSockets
    /\ connLog.credsPending < MaxCredsWrites
    /\ connLog' = [connLog EXCEPT !.credsPending = connLog.credsPending + 1]
    /\ UNCHANGED <<reconnectRetryCount, sockets, timers, fibers, exitCode,
                   configRef, selecting>>

\* What the creds.update handler logs when saveCreds rejects: the catch
\* builds the Error and the forked fiber ends with it; there is no log call.
logsSaveCredsFailure == FALSE

\* A saveCreds promise settles: the forked fiber ends, with the Error when
\* the write was rejected.
saveCredsSettled(rejected) ==
    /\ Running
    /\ Quiescent
    /\ connLog.credsPending > 0
    /\ connLog' = [connLog EXCEPT
                     !.credsPending = connLog.credsPending - 1,
                     !.credsFailed = connLog.credsFailed \/ rejected,
                     !.credsFailureLogged =
                         connLog.credsFailureLogged \/ (rejected /\ logsSaveCredsFailure)]
    /\ UNCHANGED <<reconnectRetryCount, sockets, timers, fibers, exitCode,
                   configRef, selecting>>

InitConn ==
    /\ reconnectRetryCount = 0
    /\ sockets = <<"connecting">>
    /\ timers = <<>>
    /\ fibers = <<>>
    /\ exitCode = {}
    /\ connLog = [lastState |-> "none", lastReason |-> "none", closes |-> 0,
                  everConnected |-> FALSE, reconnectCalls |-> 0, scheduled |-> 0,
                  delaysSinceConnected |-> <<>>, loggedMaxRetries |-> FALSE,
                  used |-> NoAnnouncement, announced |-> NoAnnouncement,
                  listeners |-> <<FirstListener>>, upserted |-> 0,
                  credsPending |-> 0, credsFailed |-> FALSE,
                  credsFailureLogged |-> FALSE]

(***************************************************************************)
(* MESSAGE NORMALIZER (src/message-handler.ts)                             *)
(***************************************************************************)

\* An optional text: a string field of the envelope, or the text or caption
\* of a sub-message.  A field that is not there and a text that is empty
\* are two values; for the text of a sub-message the empty value stands for
\* absent, null and "" alike.
OptTexts(ch) ==
    {[present |-> FALSE, text |-> <<>>],
     [present |-> TRUE, text |-> <<>>],
     [present |-> TRUE, text |-> <<ch>>]}

\* The envelope bodies (proto.IMessage): every combination of the fields
\* that the normalizer reads.
MessageBodies ==
    [conversation : OptTexts("c"), extendedTextMessage : OptTexts("x"),
     imageMessage : OptTexts("i"), videoMessage : OptTexts("v"),
     audioMessage : BOOLEAN, documentMessage : BOOLEAN, stickerMessage : BOOLEAN,
     contactMessage : BOOLEAN, locationMessage : BOOLEAN]

\* The envelope keys: the id may be missing (Null), empty or a server id;
\* the participant may be missing ("" here); the remote JID is a group's or
\* a user's.
NormalizerKeys ==
    [id : {Null, "", "m1"}, participant : {"", "u1"},
     remoteJid : {Jid("g1", "g.us"), Jid("u1", "s.whatsapp.net")}]

ProtoMessages == [key : NormalizerKeys, message : MessageBodies]

\* Mutant: a text counts as soon as its field is there.
TruthyWhenPresent(opt) == opt.present

\* JavaScript truthiness of an optional string: undefined, null and "" are
\* falsy.
Truthy(opt) == opt.present /\ opt.text # <<>>

\* extractContent, on the body.
extractContentFrom(message) ==
    IF Truthy(message.conversation)
    THEN [hasContent |-> TRUE, content |-> message.conversation.text]
    ELSE IF Truthy(message.extendedTextMessage)
    THEN [hasContent |-> TRUE, content |-> message.extendedTextMessage.text]
    ELSE IF Truthy(message.imageMessage)
    THEN [hasContent |-> TRUE, content |-> message.imageMessage.text]
    ELSE IF Truthy(message.videoMessage)
    THEN [hasContent |-> TRUE, content |-> message.videoMessage.text]
    ELSE [hasContent |-> FALSE, content |-> <<>>]

\* determineMessageType: a sub-message is an object and truthy when it is
\* there, the conversation is a string and truthy when it is not empty.
determineMessageType(message) ==
    IF message.imageMessage.present THEN "image"
    ELSE IF message.videoMessage.present THEN "video"
    ELSE IF message.audioMessage THEN "audio"
    ELSE IF message.documentMessage THEN "document"
    ELSE IF message.stickerMessage THEN "sticker"
    ELSE IF message.contactMessage THEN "contact"
    ELSE IF message.locationMessage THEN "location"
    ELSE IF Truthy(message.conversation) \/ message.extendedTextMessage.present
    THEN "text"
    ELSE "unknown"

\* Mutant: the id of the canonical message is made up when the key has none.
idOrGenerated(id) == IF id = Null THEN "generated" ELSE id

\* key.id ?? ""
idOrEmpty(id) == IF id = Null THEN "" ELSE id

\* The record createMessageFromProto returns for an envelope with key and
\* body (WhatsAppMessage; media, timestamp and fromMe are left out).  The
\* null of author and groupJid is "" and NullJid.
WhatsAppMessage(protoMessage) ==
    LET key     == protoMessage.key
        isGroup == endsWithGUs(key.remoteJid)
    IN  [id |-> idOrEmpty(key.id),
         fromJid |-> key.remoteJid,
         author |-> key.participant,
         type |-> determineMessageType(protoMessage.message),
         content |-> extractContentFrom(protoMessage.message),
         groupJid |-> IF isGroup THEN key.remoteJid ELSE NullJid]

\* handleIncomingMessage: message = yield* createMessageFromProto(protoMessage)
normalizeEnvelope(t) ==
    /\ Running
    /\ tasks[t].pc = "normalizing"
    /\ tasks' = [tasks EXCEPT ![t].pc = "normalized",
                              ![t].message = WhatsAppMessage(tasks[t].envelope)]

\* handleIncomingMessage: the two early returns on the canonical message.
filterMessage(t) ==
    /\ Running
    /\ tasks[t].pc = "normalized"
    /\ tasks' = [tasks EXCEPT ![t].pc = IF FilterAdmits(configOfTask(t), tasks[t].message)
                                        THEN "pipeline" ELSE "dropped_filter"]

(***************************************************************************)
(* CONFIGURATION LOADING (src/config.ts, index.ts)                         *)
(***************************************************************************)

\* Bound: pieces an environment value is made of.
MaxPieces == 4

\* The pieces of the values of WHATSAPP_ALLOWED_GROUPS, as sequences of
\* characters: a letter, a blank, the separator and the group suffix.
GroupSuffix == <<"@", "g", ".", "u", "s">>
Pieces == {<<"a">>, <<" ">>, <<",">>, GroupSuffix}

RECURSIVE Concat(_)
Concat(pieces) ==
    IF pieces = <<>> THEN <<>> ELSE Head(pieces) \o Concat(Tail(pieces))

EnvValues == {Concat(ps) : ps \in UNION {[1..n -> Pieces] : n \in 0..MaxPieces}}

\* String.prototype.split(",")
RECURSIVE split(_, _)
split(text, delim) ==
    LET at == indexOf(text, delim, 1)
    IN  IF at = 0 THEN <<text>>
        ELSE <<SubSeq(text, 1, at - 1)>>
                 \o split(SubSeq(text, at + Len(delim), Len(text)), delim)

\* Array.prototype.map / filter, for the two uses in parseAllowedGroups.
RECURSIVE mapTrim(_)
mapTrim(entries) ==
    IF entries = <<>> THEN <<>>
    ELSE <<trim(Head(entries))>> \o mapTrim(Tail(entries))

\* Mutant: a JID is taken as a group's when the suffix occurs anywhere in it.
includesSuffix(jid, suffix) == indexOf(jid, suffix, 1) # 0

\* String.prototype.endsWith
endsWith(jid, suffix) ==
    /\ Len(jid) >= Len(suffix)
    /\ SubSeq(jid, Len(jid) - Len(suffix) + 1, Len(jid)) = suffix

NonEmptyEntry(jid)  == Len(jid) > 0
ValidGroupJid(jid)  == endsWith(jid, GroupSuffix)
InvalidGroupJid(jid) == ~endsWith(jid, GroupSuffix)

\* parseAllowedGroups: the valid JIDs and the JIDs named in the warning, or
\* the ConfigError.
parseAllowedGroups(envValue) ==
    LET jids      == SelectSeq(mapTrim(split(envValue, <<",">>)), NonEmptyEntry)
        validJids == SelectSeq(jids, ValidGroupJid)
    IN  IF Len(jids) = 0
        THEN [right |-> TRUE, jids |-> <<>>, warned |-> <<>>]
        ELSE IF Len(validJids) = 0
        THEN [right |-> FALSE, jids |-> <<>>, warned |-> <<>>]
        ELSE [right |-> TRUE, jids |-> validJids,
              warned |-> IF Len(validJids) # Len(jids)
                         THEN SelectSeq(jids, InvalidGroupJid) ELSE <<>>]

\* loadConfig, for the value Config.string gives it (the variable's text,
\* "" when it is not set).
loadConfig(allowedGroupsEnv) ==
    IF allowedGroupsEnv = <<>>
    THEN [right |-> TRUE, config |-> DiscoveryConfig, warned |-> <<>>]
    ELSE LET parsed == parseAllowedGroups(allowedGroupsEnv)
         IN  IF ~parsed.right
             THEN [right |-> FALSE, config |-> DiscoveryConfig, warned |-> <<>>]
             ELSE IF Len(parsed.jids) = 0
             THEN [right |-> TRUE, config |-> DiscoveryConfig, warned |-> <<>>]
             ELSE [right |-> TRUE, config |-> MonitorConfig(parsed.jids),
                   warned |-> parsed.warned]

\* The root fiber of the process: program, with the value of the
\* environment variable it is about to read and what it has logged.
ProgramFiber(tag, env, warned) ==
    [kind |-> "program", tag |-> tag, env |-> env, warned |-> warned]

\* The content of configRef before makeConfigRef has made it.
NoConfig == [mode |-> "none", allowedGroupJids |-> <<>>]

\* program: configRef = yield* makeConfigRef()
makeConfigRef ==
    /\ Running
    /\ fibers # <<>>
    /\ Head(fibers).kind = "program" /\ Head(fibers).tag = "start"
    /\ LET loaded == loadConfig(Head(fibers).env)
       IN  IF loaded.right
           THEN /\ configRef' = loaded.config
                /\ fibers' = <<ProgramFiber("configured", Head(fibers).env, loaded.warned)>>
           ELSE /\ configRef' = configRef
                /\ fibers' = <<ProgramFiber("ConfigError", Head(fibers).env, loaded.warned)>>
    /\ UNCHANGED <<reconnectRetryCount, sockets, timers, exitCode, connLog, selecting>>

\* program: yield* startWhatsAppListener(configRef); the root fiber then
\* sleeps for ever.
programStartsListener ==
    /\ Running
    /\ fibers # <<>>
    /\ Head(fibers).kind = "program" /\ Head(fibers).tag = "configured"
    /\ sockets' = Append(sockets, "connecting")
    /\ fibers' = <<ProgramFiber("listening", Head(fibers).env, Head(fibers).warned)>>
    /\ UNCHANGED <<reconnectRetryCount, timers, exitCode, connLog, configRef, selecting>>

\* Effect.catchTag("ConfigError", ...): two error logs and process.exit(1).
programCatchesConfigError ==
    /\ Running
    /\ fibers # <<>>
    /\ Head(fibers).kind = "program" /\ Head(fibers).tag = "ConfigError"
    /\ exitCode' = {1}
    /\ UNCHANGED <<reconnectRetryCount, sockets, timers, fibers, connLog,
                   configRef, selecting>>

(***************************************************************************)
(* SPECIFICATIONS                                                          *)
(***************************************************************************)

\* The handler state of a run that started in discovery mode.
InitHandlerDiscovery ==
    /\ configRef = DiscoveryConfig
    /\ selecting = [listing |-> 0, choosing |-> 0, writes |-> 0]
    /\ tasks = [t \in TaskIds |-> IdleTask]

\* The event store under any interleaving of saveEvent and deleteEvent
\* calls; the database executes every statement it is sent.
InitStoreSpec == InitStore /\ InitLlm /\ InitConn /\ InitHandlerDiscovery

NextStore ==
    \/ \E c \in CallIds, s \in Slugs, m \in MessageIds :
         saveEvent(c, EventToSave(s, m, DefaultBody, DefaultStartAt), DefaultNow)
           /\ UNCHANGED <<llmVars, connVars, handlerVars>>
    \/ \E c \in CallIds :
         InsertExecuted(c) /\ UNCHANGED <<llmVars, connVars, handlerVars>>
    \/ \E c \in CallIds, s \in Slugs :
         deleteEvent(c, s) /\ UNCHANGED <<llmVars, connVars, handlerVars>>
    \/ \E c \in CallIds :
         DeleteExecuted(c) /\ UNCHANGED <<llmVars, connVars, handlerVars>>

SpecStore == InitStoreSpec /\ [][NextStore]_vars

\* One LLM stage call.
NextLlm ==
    \/ \E o \in Outcomes : Attempt(o) /\ UNCHANGED <<storeVars, connVars, handlerVars>>
    \/ RetryAfterSleep /\ UNCHANGED <<storeVars, connVars, handlerVars>>

SpecLlm == InitStoreSpec /\ [][NextLlm]_vars

\* SpecLlm with every request settling (fetch is raced against the
\* REQUEST_TIMEOUT_MS timer) and every Effect.sleep elapsing.
SpecLlmFair == SpecLlm /\ WF_vars(NextLlm)

\* The message tasks and the allow-list, from every configuration loadConfig
\* can return.
InitHandlerSpec == InitStore /\ InitLlm /\ InitConn /\ InitHandler

NextHandler ==
    \/ \E t \in TaskIds, env \in Envelopes :
         /\ Dispatch(t, env)
         /\ UNCHANGED <<storeVars, llmVars, connVars, configRef, selecting>>
    \/ \E t \in TaskIds :
         /\ ReadConfig(t)
         /\ UNCHANGED <<storeVars, llmVars, connVars, configRef, selecting>>
    \/ \E t \in TaskIds :
         /\ Normalize(t)
         /\ UNCHANGED <<storeVars, llmVars, connVars, configRef, selecting>>
    \/ /\ selecting.listing + selecting.choosing < MaxSelecting
       /\ handleConnected
       /\ UNCHANGED <<storeVars, llmVars, tasks>>
       /\ UNCHANGED <<reconnectRetryCount, sockets, timers, fibers, connLog>>
    \/ \E found \in BOOLEAN :
         /\ groupsListed(found)
         /\ UNCHANGED <<storeVars, llmVars, tasks>>
         /\ UNCHANGED <<reconnectRetryCount, sockets, timers, fibers, connLog>>
    \/ \E g \in GroupJids :
         /\ groupSelected(g)
         /\ UNCHANGED <<storeVars, llmVars, tasks>>
         /\ UNCHANGED <<reconnectRetryCount, sockets, timers, fibers, connLog>>
    \/ /\ selectionCancelled
       /\ UNCHANGED <<storeVars, llmVars, tasks>>
       /\ UNCHANGED <<reconnectRetryCount, sockets, timers, fibers, connLog>>

SpecHandler == InitHandlerSpec /\ [][NextHandler]_vars

\* The connection manager, from every configuration loadConfig can return.
NextConn ==
    \/ \E i \in DOMAIN sockets, u \in Updates :
         connectionUpdate(i, u) /\ UNCHANGED <<storeVars, llmVars, tasks>>
    \/ runHandleConnectionChange /\ UNCHANGED <<storeVars, llmVars, tasks>>
    \/ runDisplayQRCode /\ UNCHANGED <<storeVars, llmVars, tasks>>
    \/ runHandleConnected /\ UNCHANGED <<storeVars, llmVars, tasks>>
    \/ runExit /\ UNCHANGED <<storeVars, llmVars, tasks>>
    \/ startWhatsAppListener /\ UNCHANGED <<storeVars, llmVars, tasks>>
    \/ \E found \in BOOLEAN :
         /\ groupsListed(found)
         /\ UNCHANGED <<storeVars, llmVars, tasks>>
         /\ UNCHANGED <<reconnectRetryCount, sockets, timers, fibers, connLog>>
    \/ \E g \in GroupJids :
         /\ groupSelected(g)
         /\ UNCHANGED <<storeVars, llmVars, tasks>>
         /\ UNCHANGED <<reconnectRetryCount, sockets, timers, fibers, connLog>>
    \/ /\ selectionCancelled
       /\ UNCHANGED <<storeVars, llmVars, tasks>>
       /\ UNCHANGED <<reconnectRetryCount, sockets, timers, fibers, connLog>>

SpecConn == InitHandlerSpec /\ [][NextConn]_vars

\* The reconnect timer armed by setTimeout fires once its delay is over.
FireReconnectTimer ==
    startWhatsAppListener /\ UNCHANGED <<storeVars, llmVars, tasks>>

\* The runtime runs every fiber it has forked.
RunForkedFiber ==
    /\ runHandleConnectionChange \/ runDisplayQRCode \/ runHandleConnected \/ runExit
    /\ UNCHANGED <<storeVars, llmVars, tasks>>

\* SpecConn with timers that fire and forked fibers that run.
SpecConnFair ==
    SpecConn /\ WF_vars(FireReconnectTimer) /\ WF_vars(RunForkedFiber)

\* The message tasks with their pipeline and the store, in a run that
\* monitors one group.
InitPipeline ==
    /\ InitStore /\ InitLlm /\ InitConn
    /\ configRef = MonitorConfig(<<Jid("g1", "g.us")>>)
    /\ selecting = [listing |-> 0, choosing |-> 0, writes |-> 0]
    /\ tasks = [t \in TaskIds |-> IdleTask]

NextPipeline ==
    \/ \E t \in TaskIds, env \in Envelopes :
         /\ Dispatch(t, env)
         /\ UNCHANGED <<storeVars, llmVars, connVars, configRef, selecting>>
    \/ \E t \in TaskIds :
         /\ ReadConfig(t)
         /\ UNCHANGED <<storeVars, llmVars, connVars, configRef, selecting>>
    \/ \E t \in TaskIds :
         /\ Normalize(t)
         /\ UNCHANGED <<storeVars, llmVars, connVars, configRef, selecting>>
    \/ \E t \in TaskIds, text \in Texts :
         /\ processMessageForEvent(t, text)
         /\ UNCHANGED <<storeVars, llmVars, configRef, selecting>>
         /\ UNCHANGED <<reconnectRetryCount, sockets, timers, fibers, connLog>>
    \/ \E t \in TaskIds, r \in StageCallResults, answer \in ClassificationAnswers :
         /\ classifyMessage(t, r, answer)
         /\ UNCHANGED <<storeVars, llmVars, configRef, selecting>>
         /\ UNCHANGED <<reconnectRetryCount, sockets, timers, fibers, connLog>>
    \/ \E t \in TaskIds, r \in StageCallResults, body \in ExtractionBodies :
         /\ extractEvent(t, r, body)
         /\ UNCHANGED <<storeVars, llmVars, configRef, selecting>>
         /\ UNCHANGED <<reconnectRetryCount, sockets, timers, fibers, connLog>>
    \/ \E t \in TaskIds, c \in CallIds, hasAuthor \in BOOLEAN,
          slug \in Slugs, mid \in MessageIds :
         /\ saveExtractedEvent(t, c, hasAuthor, slug, mid)
         /\ UNCHANGED <<llmVars, configRef, selecting>>
         /\ UNCHANGED <<reconnectRetryCount, sockets, timers, fibers, connLog>>
    \/ \E t \in TaskIds, rejected \in BOOLEAN :
         /\ saveReturned(t, rejected)
         /\ UNCHANGED <<llmVars, configRef, selecting>>
         /\ UNCHANGED <<reconnectRetryCount, sockets, timers, fibers, connLog>>

SpecPipeline == InitPipeline /\ [][NextPipeline]_vars

\* The sessions of a run that monitors one group, with one inbound message
\* on its way through the pipeline: connection updates, reconnects,
\* credential rotations and the steps of the message task.
SessionTaskIds == {1}

InitSession ==
    /\ InitStore /\ InitLlm /\ InitConn
    /\ configRef = MonitorConfig(<<Jid("g1", "g.us")>>)
    /\ selecting = [listing |-> 0, choosing |-> 0, writes |-> 0]
    /\ tasks = [t \in TaskIds |-> IdleTask]

NextSession ==
    \/ \E i \in DOMAIN sockets, u \in Updates :
         /\ connectionUpdate(i, u)
         /\ tasks' = tasksAfterConnectionUpdate(i, u)
         /\ UNCHANGED <<storeVars, llmVars>>
    \/ runHandleConnectionChange /\ UNCHANGED <<storeVars, llmVars, tasks>>
    \/ runDisplayQRCode /\ UNCHANGED <<storeVars, llmVars, tasks>>
    \/ runHandleConnected /\ UNCHANGED <<storeVars, llmVars, tasks>>
    \/ /\ Len(sockets) < MaxSessions
       /\ startWhatsAppListener
       /\ UNCHANGED <<storeVars, llmVars, tasks>>
    \/ \E i \in DOMAIN sockets :
         credsUpdate(i) /\ UNCHANGED <<storeVars, llmVars, tasks>>
    \/ \E rejected \in BOOLEAN :
         saveCredsSettled(rejected) /\ UNCHANGED <<storeVars, llmVars, tasks>>
    \/ \E i \in DOMAIN sockets, t \in SessionTaskIds, env \in Envelopes :
         /\ messagesUpsert(i, t, env)
         /\ UNCHANGED <<storeVars, llmVars, connVars, configRef, selecting>>
    \/ \E t \in SessionTaskIds :
         /\ ReadConfig(t)
         /\ UNCHANGED <<storeVars, llmVars, connVars, configRef, selecting>>
    \/ \E t \in SessionTaskIds :
         /\ Normalize(t)
         /\ UNCHANGED <<storeVars, llmVars, connVars, configRef, selecting>>
    \/ \E t \in SessionTaskIds, text \in Texts :
         /\ processMessageForEvent(t, text)
         /\ UNCHANGED <<storeVars, llmVars, configRef, selecting>>
         /\ UNCHANGED <<reconnectRetryCount, sockets, timers, fibers, connLog>>
    \/ \E t \in SessionTaskIds, r \in StageCallResults, answer \in ClassificationAnswers :
         /\ classifyMessage(t, r, answer)
         /\ UNCHANGED <<storeVars, llmVars, configRef, selecting>>
         /\ UNCHANGED <<reconnectRetryCount, sockets, timers, fibers, connLog>>
    \/ \E t \in SessionTaskIds, r \in StageCallResults, body \in ExtractionBodies :
         /\ extractEvent(t, r, body)
         /\ UNCHANGED <<storeVars, llmVars, configRef, selecting>>
         /\ UNCHANGED <<reconnectRetryCount, sockets, timers, fibers, connLog>>
    \/ \E t \in SessionTaskIds, c \in CallIds, hasAuthor \in BOOLEAN,
          slug \in Slugs, mid \in MessageIds :
         /\ saveExtractedEvent(t, c, hasAuthor, slug, mid)
         /\ UNCHANGED <<llmVars, configRef, selecting>>
         /\ UNCHANGED <<reconnectRetryCount, sockets, timers, fibers, connLog>>
    \/ \E t \in SessionTaskIds, rejected \in BOOLEAN :
         /\ saveReturned(t, rejected)
         /\ UNCHANGED <<llmVars, configRef, selecting>>
         /\ UNCHANGED <<reconnectRetryCount, sockets, timers, fibers, connLog>>

SpecSession == InitSession /\ [][NextSession]_vars

\* The steps of message task t in NextSession: each is the continuation of
\* the task's fiber after an await, which the runtime runs once the awaited
\* call has settled.
SessionTaskStep(t) ==
    \/ /\ ReadConfig(t)
       /\ UNCHANGED <<storeVars, llmVars, connVars, configRef, selecting>>
    \/ /\ Normalize(t)
       /\ UNCHANGED <<storeVars, llmVars, connVars, configRef, selecting>>
    \/ \E text \in Texts :
         /\ processMessageForEvent(t, text)
         /\ UNCHANGED <<storeVars, llmVars, configRef, selecting>>
         /\ UNCHANGED <<reconnectRetryCount, sockets, timers, fibers, connLog>>
    \/ \E r \in StageCallResults, answer \in ClassificationAnswers :
         /\ classifyMessage(t, r, answer)
         /\ UNCHANGED <<storeVars, llmVars, configRef, selecting>>
         /\ UNCHANGED <<reconnectRetryCount, sockets, timers, fibers, connLog>>
    \/ \E r \in StageCallResults, body \in ExtractionBodies :
         /\ extractEvent(t, r, body)
         /\ UNCHANGED <<storeVars, llmVars, configRef, selecting>>
         /\ UNCHANGED <<reconnectRetryCount, sockets, timers, fibers, connLog>>
    \/ \E c \in CallIds, hasAuthor \in BOOLEAN, slug \in Slugs, mid \in MessageIds :
         /\ saveExtractedEvent(t, c, hasAuthor, slug, mid)
         /\ UNCHANGED <<llmVars, configRef, selecting>>
         /\ UNCHANGED <<reconnectRetryCount, sockets, timers, fibers, connLog>>
    \/ \E rejected \in BOOLEAN :
         /\ saveReturned(t, rejected)
         /\ UNCHANGED <<llmVars, configRef, selecting>>
         /\ UNCHANGED <<reconnectRetryCount, sockets, timers, fibers, connLog>>

\* SpecSession with every awaited call of a task settling at some time.
SpecSessionFair ==
    SpecSession /\ \A t \in SessionTaskIds : WF_vars(SessionTaskStep(t))

\* The first session of a run that monitors one group and receives its
\* messages in batches: connection updates up to the disconnect, credential
\* rotations and the steps of the message tasks.
BatchEnvelopes ==
    {[hasKey |-> TRUE, hasMessage |-> TRUE, remoteJid |-> Jid("g1", "g.us")],
     [hasKey |-> TRUE, hasMessage |-> TRUE, remoteJid |-> Jid("g2", "g.us")]}

BatchTaskIds == {1, 2}

Batches ==
    {<<e>> : e \in BatchEnvelopes}
    \cup {<<p[1], p[2]>> : p \in BatchEnvelopes \X BatchEnvelopes}

HandleConnectionUpdate(i, u) ==
    /\ connectionUpdate(i, u)
    /\ tasks' = tasksAfterConnectionUpdate(i, u)
    /\ UNCHANGED <<storeVars, llmVars>>

HandleCredsUpdate(i) ==
    credsUpdate(i) /\ UNCHANGED <<storeVars, llmVars, tasks>>

HandleMessagesUpsert(i, batch) ==
    /\ messagesUpsertBatch(i, batch)
    /\ UNCHANGED <<storeVars, llmVars>>

\* The stage calls of the batch runs end at their first request.
BatchStageResults == {r \in StageCallResults : r.requests = 1}

BatchTexts == {<<>>, <<" ", "e", " ">>}

\* The steps of message task t in NextBatch.
BatchTaskStep(t) ==
    \/ /\ ReadConfig(t)
       /\ UNCHANGED <<storeVars, llmVars, connVars, configRef, selecting>>
    \/ /\ Normalize(t)
       /\ UNCHANGED <<storeVars, llmVars, connVars, configRef, selecting>>
    \/ \E text \in BatchTexts :
         /\ processMessageForEvent(t, text)
         /\ UNCHANGED <<storeVars, llmVars, configRef, selecting>>
         /\ UNCHANGED <<reconnectRetryCount, sockets, timers, fibers, connLog>>
    \/ \E r \in BatchStageResults, answer \in ClassificationAnswers :
         /\ classifyMessage(t, r, answer)
         /\ UNCHANGED <<storeVars, llmVars, configRef, selecting>>
         /\ UNCHANGED <<reconnectRetryCount, sockets, timers, fibers, connLog>>
    \/ \E r \in BatchStageResults, body \in ExtractionBodies :
         /\ extractEvent(t, r, body)
         /\ UNCHANGED <<storeVars, llmVars, configRef, selecting>>
         /\ UNCHANGED <<reconnectRetryCount, sockets, timers, fibers, connLog>>
    \/ \E c \in CallIds :
         /\ saveExtractedEvent(t, c, TRUE, "s1", "m1")
         /\ UNCHANGED <<llmVars, configRef, selecting>>
         /\ UNCHANGED <<reconnectRetryCount, sockets, timers, fibers, connLog>>
    \/ \E rejected \in BOOLEAN :
         /\ saveReturned(t, rejected)
         /\ UNCHANGED <<llmVars, configRef, selecting>>
         /\ UNCHANGED <<reconnectRetryCount, sockets, timers, fibers, connLog>>

NextBatch ==
    \/ \E i \in DOMAIN sockets, u \in Updates : HandleConnectionUpdate(i, u)
    \/ runHandleConnectionChange /\ UNCHANGED <<storeVars, llmVars, tasks>>
    \/ runDisplayQRCode /\ UNCHANGED <<storeVars, llmVars, tasks>>
    \/ runHandleConnected /\ UNCHANGED <<storeVars, llmVars, tasks>>
    \/ \E i \in DOMAIN sockets : HandleCredsUpdate(i)
    \/ \E rejected \in BOOLEAN :
         saveCredsSettled(rejected) /\ UNCHANGED <<storeVars, llmVars, tasks>>
    \/ \E i \in DOMAIN sockets, batch \in Batches :
         /\ Cardinality(Forked) + Len(batch) <= Cardinality(BatchTaskIds)
         /\ HandleMessagesUpsert(i, batch)
    \/ \E t \in BatchTaskIds :
         /\ ReadConfig(t)
         /\ UNCHANGED <<storeVars, llmVars, connVars, configRef, selecting>>
    \/ \E t \in BatchTaskIds :
         /\ Normalize(t)
         /\ UNCHANGED <<storeVars, llmVars, connVars, configRef, selecting>>
    \/ \E t \in BatchTaskIds, text \in BatchTexts :
         /\ processMessageForEvent(t, text)
         /\ UNCHANGED <<storeVars, llmVars, configRef, selecting>>
         /\ UNCHANGED <<reconnectRetryCount, sockets, timers, fibers, connLog>>
    \/ \E t \in BatchTaskIds, r \in BatchStageResults, answer \in ClassificationAnswers :
         /\ classifyMessage(t, r, answer)
         /\ UNCHANGED <<storeVars, llmVars, configRef, selecting>>
         /\ UNCHANGED <<reconnectRetryCount, sockets, timers, fibers, connLog>>
    \/ \E t \in BatchTaskIds, r \in BatchStageResults, body \in ExtractionBodies :
         /\ extractEvent(t, r, body)
         /\ UNCHANGED <<storeVars, llmVars, configRef, selecting>>
         /\ UNCHANGED <<reconnectRetryCount, sockets, timers, fibers, connLog>>
    \/ \E t \in BatchTaskIds, c \in CallIds :
         /\ saveExtractedEvent(t, c, TRUE, "s1", "m1")
         /\ UNCHANGED <<llmVars, configRef, selecting>>
         /\ UNCHANGED <<reconnectRetryCount, sockets, timers, fibers, connLog>>
    \/ \E t \in BatchTaskIds, rejected \in BOOLEAN :
         /\ saveReturned(t, rejected)
         /\ UNCHANGED <<llmVars, configRef, selecting>>
         /\ UNCHANGED <<reconnectRetryCount, sockets, timers, fibers, connLog>>

SpecBatch == InitSession /\ [][NextBatch]_vars

\* A run started in discovery mode: the group selection, and two message
\* tasks that go through the whole pipeline.
DiscoveryTaskIds == {1, 2}

NextDiscovery ==
    \/ \E t \in DiscoveryTaskIds, env \in Envelopes :
         /\ Dispatch(t, env)
         /\ UNCHANGED <<storeVars, llmVars, connVars, configRef, selecting>>
    \/ \E t \in DiscoveryTaskIds :
         /\ ReadConfig(t)
         /\ UNCHANGED <<storeVars, llmVars, connVars, configRef, selecting>>
    \/ \E t \in DiscoveryTaskIds :
         /\ Normalize(t)
         /\ UNCHANGED <<storeVars, llmVars, connVars, configRef, selecting>>
    \/ /\ selecting.listing + selecting.choosing < MaxSelecting
       /\ handleConnected
       /\ UNCHANGED <<storeVars, llmVars, tasks>>
       /\ UNCHANGED <<reconnectRetryCount, sockets, timers, fibers, connLog>>
    \/ \E found \in BOOLEAN :
         /\ groupsListed(found)
         /\ UNCHANGED <<storeVars, llmVars, tasks>>
         /\ UNCHANGED <<reconnectRetryCount, sockets, timers, fibers, connLog>>
    \/ \E g \in GroupJids :
         /\ groupSelected(g)
         /\ UNCHANGED <<storeVars, llmVars, tasks>>
         /\ UNCHANGED <<reconnectRetryCount, sockets, timers, fibers, connLog>>
    \/ /\ selectionCancelled
       /\ UNCHANGED <<storeVars, llmVars, tasks>>
       /\ UNCHANGED <<reconnectRetryCount, sockets, timers, fibers, connLog>>
    \/ \E t \in DiscoveryTaskIds, text \in BatchTexts :
         /\ processMessageForEvent(t, text)
         /\ UNCHANGED <<storeVars, llmVars, configRef, selecting>>
         /\ UNCHANGED <<reconnectRetryCount, sockets, timers, fibers, connLog>>
    \/ \E t \in DiscoveryTaskIds, r \in BatchStageResults, answer \in ClassificationAnswers :
         /\ classifyMessage(t, r, answer)
         /\ UNCHANGED <<storeVars, llmVars, configRef, selecting>>
         /\ UNCHANGED <<reconnectRetryCount, sockets, timers, fibers, connLog>>
    \/ \E t \in DiscoveryTaskIds, r \in BatchStageResults, body \in ExtractionBodies :
         /\ extractEvent(t, r, body)
         /\ UNCHANGED <<storeVars, llmVars, configRef, selecting>>
         /\ UNCHANGED <<reconnectRetryCount, sockets, timers, fibers, connLog>>
    \/ \E t \in DiscoveryTaskIds, c \in CallIds, hasAuthor \in BOOLEAN :
         /\ saveExtractedEvent(t, c, hasAuthor, "s1", "m1")
         /\ UNCHANGED <<llmVars, configRef, selecting>>
         /\ UNCHANGED <<reconnectRetryCount, sockets, timers, fibers, connLog>>
    \/ \E t \in DiscoveryTaskIds, rejected \in BOOLEAN :
         /\ saveReturned(t, rejected)
         /\ UNCHANGED <<llmVars, configRef, selecting>>
         /\ UNCHANGED <<reconnectRetryCount, sockets, timers, fibers, connLog>>

SpecDiscovery == InitStoreSpec /\ [][NextDiscovery]_vars

\* Messages of the monitored group with and without a key id, from the
\* envelope to the events table: the id and the author that saveEvent is
\* given are those of the canonical message.
NoText == [present |-> FALSE, text |-> <<>>]

TextBody ==
    [conversation |-> [present |-> TRUE, text |-> <<"c">>],
     extendedTextMessage |-> NoText, imageMessage |-> NoText,
     videoMessage |-> NoText, audioMessage |-> FALSE, documentMessage |-> FALSE,
     stickerMessage |-> FALSE, contactMessage |-> FALSE, locationMessage |-> FALSE]

IdEnvelopes ==
    [key : [id : {Null, "m1"}, participant : {"", "u1"},
            remoteJid : {Jid("g1", "g.us")}],
     message : {TextBody}]

NextMessageIds ==
    \/ \E t \in TaskIds, protoMessage \in IdEnvelopes :
         /\ Dispatch(t, protoMessage)
         /\ UNCHANGED <<storeVars, llmVars, connVars, configRef, selecting>>
    \/ \E t \in TaskIds :
         /\ ReadConfig(t)
         /\ UNCHANGED <<storeVars, llmVars, connVars, configRef, selecting>>
    \/ \E t \in TaskIds :
         /\ normalizeEnvelope(t)
         /\ UNCHANGED <<storeVars, llmVars, connVars, configRef, selecting>>
    \/ \E t \in TaskIds :
         /\ filterMessage(t)
         /\ UNCHANGED <<storeVars, llmVars, connVars, configRef, selecting>>
    \/ \E t \in TaskIds :
         /\ tasks[t].pc = "pipeline"
         /\ processMessageForEvent(t, tasks[t].message.content.content)
         /\ UNCHANGED <<storeVars, llmVars, configRef, selecting>>
         /\ UNCHANGED <<reconnectRetryCount, sockets, timers, fibers, connLog>>
    \/ \E t \in TaskIds, r \in BatchStageResults, answer \in ClassificationAnswers :
         /\ classifyMessage(t, r, answer)
         /\ UNCHANGED <<storeVars, llmVars, configRef, selecting>>
         /\ UNCHANGED <<reconnectRetryCount, sockets, timers, fibers, connLog>>
    \/ \E t \in TaskIds, r \in BatchStageResults, body \in ExtractionBodies :
         /\ extractEvent(t, r, body)
         /\ UNCHANGED <<storeVars, llmVars, configRef, selecting>>
         /\ UNCHANGED <<reconnectRetryCount, sockets, timers, fibers, connLog>>
    \/ \E t \in TaskIds, c \in CallIds, slug \in Slugs :
         /\ tasks[t].pc = "extracted"
         /\ saveExtractedEvent(t, c, tasks[t].message.author # "", slug,
                               tasks[t].message.id)
         /\ UNCHANGED <<llmVars, configRef, selecting>>
         /\ UNCHANGED <<reconnectRetryCount, sockets, timers, fibers, connLog>>
    \/ \E t \in TaskIds, rejected \in BOOLEAN :
         /\ saveReturned(t, rejected)
         /\ UNCHANGED <<llmVars, configRef, selecting>>
         /\ UNCHANGED <<reconnectRetryCount, sockets, timers, fibers, connLog>>

SpecMessageIds == InitPipeline /\ [][NextMessageIds]_vars

\* The normalizer on every envelope that has a key and a body: the task of
\* the envelope has read the allow-list and normalizes it.
InitNormalizer ==
    /\ InitStore /\ InitLlm /\ InitConn
    /\ configRef = MonitorConfig(<<Jid("g1", "g.us")>>)
    /\ selecting = [listing |-> 0, choosing |-> 0, writes |-> 0]
    /\ \E protoMessage \in ProtoMessages :
         tasks = [t \in TaskIds |->
                    IF t = 1
                    THEN [IdleTask EXCEPT !.pc = "normalizing",
                                          !.envelope = protoMessage,
                                          !.config = configRef]
                    ELSE IdleTask]

NextNormalizer ==
    \/ normalizeEnvelope(1)
          /\ UNCHANGED <<storeVars, llmVars, connVars, configRef, selecting>>

SpecNormalizer == InitNormalizer /\ [][NextNormalizer]_vars

\* The start of the process for every value of WHATSAPP_ALLOWED_GROUPS made
\* of at most MaxPieces pieces: the configuration is loaded, then the
\* listener starts or the process exits.
InitConfig ==
    /\ InitStore /\ InitLlm
    /\ reconnectRetryCount = 0
    /\ sockets = <<>>
    /\ timers = <<>>
    /\ \E env \in EnvValues : fibers = <<ProgramFiber("start", env, <<>>)>>
    /\ exitCode = {}
    /\ connLog = [lastState |-> "none", lastReason |-> "none", closes |-> 0,
                  everConnected |-> FALSE, reconnectCalls |-> 0, scheduled |-> 0,
                  delaysSinceConnected |-> <<>>, loggedMaxRetries |-> FALSE,
                  used |-> NoAnnouncement, announced |-> NoAnnouncement,
                  listeners |-> <<FirstListener>>, upserted |-> 0,
                  credsPending |-> 0, credsFailed |-> FALSE,
                  credsFailureLogged |-> FALSE]
    /\ configRef = NoConfig
    /\ selecting = [listing |-> 0, choosing |-> 0, writes |-> 0]
    /\ tasks = [t \in TaskIds |-> IdleTask]

NextConfig ==
    \/ makeConfigRef /\ UNCHANGED <<storeVars, llmVars, tasks>>
    \/ programStartsListener /\ UNCHANGED <<storeVars, llmVars, tasks>>
    \/ programCatchesConfigError /\ UNCHANGED <<storeVars, llmVars, tasks>>

SpecConfig == InitConfig /\ [][NextConfig]_vars

\* Two concurrent saveEvent calls that carry one message id, started from
\* any table the constraints allow that holds no row for that id.  Both
\* calls have sent their insert before either is executed.
RaceMessageId == "m1"
RaceCallIds   == {1, 2}

UniqueColumns(table) ==
    \A r1 \in table, r2 \in table :
        (r1.id = r2.id \/ r1.slug = r2.slug
           \/ r1.whatsappMessageId = r2.whatsappMessageId) => r1 = r2

RaceTables ==
    {table \in SUBSET {EventRow(id, insertEventFromInput(
                                    EventToSave(s, m, DefaultBody, DefaultStartAt),
                                    DefaultNow)) :
                          id \in 1..2, s \in Slugs,
                          m \in MessageIds \ {RaceMessageId}} :
        UniqueColumns(table)}

InitRace ==
    /\ rows \in RaceTables
    /\ nextId = 3
    /\ calls = [c \in CallIds |-> IdleCall]
    /\ InitLlm /\ InitConn /\ InitHandlerDiscovery

NextRace ==
    \/ \E c \in RaceCallIds, s \in Slugs :
         /\ saveEvent(c, EventToSave(s, RaceMessageId, DefaultBody, DefaultStartAt),
                      DefaultNow)
         /\ UNCHANGED <<llmVars, connVars, handlerVars>>
    \/ \E c \in RaceCallIds :
         /\ \A d \in RaceCallIds : calls[d].pc # "idle"
         /\ InsertExecuted(c)
         /\ UNCHANGED <<llmVars, connVars, handlerVars>>

SpecRace == InitRace /\ [][NextRace]_vars

\* One client of the store: it issues a call when the one before has
\* returned.
NoPending == \A d \in CallIds : calls[d].pc # "pending"

\* The message ids of the events the client saves.
TableMessageIds == {"m1", "m2"}

\* Every operation of the store, called by one client; a statement is
\* executed or its promise rejects.
InitTable == InitStore /\ InitLlm /\ InitConn /\ InitHandlerDiscovery

NextTable ==
    \/ \E c \in CallIds, s \in Slugs, m \in TableMessageIds :
         /\ NoPending
         /\ saveEvent(c, EventToSave(s, m, DefaultBody, DefaultStartAt), ClockAt(c))
         /\ UNCHANGED <<llmVars, connVars, handlerVars>>
    \/ \E c \in CallIds :
         InsertExecuted(c) /\ UNCHANGED <<llmVars, connVars, handlerVars>>
    \/ \E c \in CallIds :
         InsertFailed(c) /\ UNCHANGED <<llmVars, connVars, handlerVars>>
    \/ \E c \in CallIds, s \in Slugs :
         /\ NoPending
         /\ deleteEvent(c, s)
         /\ UNCHANGED <<llmVars, connVars, handlerVars>>
    \/ \E c \in CallIds :
         DeleteExecuted(c) /\ UNCHANGED <<llmVars, connVars, handlerVars>>
    \/ \E c \in CallIds :
         DeleteFailed(c) /\ UNCHANGED <<llmVars, connVars, handlerVars>>
    \/ \E c \in CallIds, s \in Slugs :
         /\ NoPending
         /\ findEventBySlug(c, s)
         /\ UNCHANGED <<llmVars, connVars, handlerVars>>
    \/ \E c \in CallIds, m \in TableMessageIds :
         /\ NoPending
         /\ findEventByWhatsAppMessageId(c, m)
         /\ UNCHANGED <<llmVars, connVars, handlerVars>>
    \/ \E c \in CallIds :
         /\ NoPending
         /\ listAllEvents(c)
         /\ UNCHANGED <<llmVars, connVars, handlerVars>>
    \/ \E c \in CallIds :
         SelectExecuted(c) /\ UNCHANGED <<llmVars, connVars, handlerVars>>
    \/ \E c \in CallIds :
         SelectFailed(c) /\ UNCHANGED <<llmVars, connVars, handlerVars>>

SpecTable == InitTable /\ [][NextTable]_vars

\* The message texts of the saved events: plain, bold, and with a link.
Bodies == {<<"a">>, <<"*", "a", "*">>, <<"h", "t", "t", "p", ":", "/", "/", "a">>}

\* Events with any of the texts are saved by one client and fetched by
\* slug; the database executes every statement.
InitRoundTrip == InitStore /\ InitLlm /\ InitConn /\ InitHandlerDiscovery

NextRoundTrip ==
    \/ \E c \in CallIds, s \in Slugs, m \in TableMessageIds, body \in Bodies :
         /\ NoPending
         /\ saveEvent(c, EventToSave(s, m, body, DefaultStartAt), ClockAt(c))
         /\ UNCHANGED <<llmVars, connVars, handlerVars>>
    \/ \E c \in CallIds :
         InsertExecuted(c) /\ UNCHANGED <<llmVars, connVars, handlerVars>>
    \/ \E c \in CallIds, s \in Slugs :
         /\ NoPending
         /\ findEventBySlug(c, s)
         /\ UNCHANGED <<llmVars, connVars, handlerVars>>
    \/ \E c \in CallIds :
         SelectExecuted(c) /\ UNCHANGED <<llmVars, connVars, handlerVars>>

SpecRoundTrip == InitRoundTrip /\ [][NextRoundTrip]_vars

\* Events with any of the start times are saved by one client and listed;
\* the database executes every statement.
InitListing == InitStore /\ InitLlm /\ InitConn /\ InitHandlerDiscovery

NextListing ==
    \/ \E c \in CallIds, s \in Slugs, m \in TableMessageIds, startAt \in StartAts :
         /\ NoPending
         /\ saveEvent(c, EventToSave(s, m, DefaultBody, startAt), ClockAt(c))
         /\ UNCHANGED <<llmVars, connVars, handlerVars>>
    \/ \E c \in CallIds :
         InsertExecuted(c) /\ UNCHANGED <<llmVars, connVars, handlerVars>>
    \/ \E c \in CallIds :
         /\ NoPending
         /\ listAllEvents(c)
         /\ UNCHANGED <<llmVars, connVars, handlerVars>>
    \/ \E c \in CallIds :
         SelectExecuted(c) /\ UNCHANGED <<llmVars, connVars, handlerVars>>

SpecListing == InitListing /\ [][NextListing]_vars

(***************************************************************************)
(* PROPERTIES OF THE EVENT STORE                                           *)
(***************************************************************************)

RaceStartTable == {r \in rows : r.whatsappMessageId # RaceMessageId}

RaceResults == {calls[c].result : c \in RaceCallIds}

RaceOver == \A c \in RaceCallIds : calls[c].pc = "done"

C3_UniqueSlugAndMessageId ==
    \A r1 \in rows, r2 \in rows :
        (r1.slug = r2.slug \/ r1.whatsappMessageId = r2.whatsappMessageId)
            => r1 = r2

\* A row was deleted and its slug was saved again: the table holds the
\* second row for the slug, and only that one.
C3_Witness ==
    \E c \in CallIds :
        /\ calls[c].op = "deleteEvent"
        /\ calls[c].result = "ok"
        /\ \E r \in rows : r.slug = calls[c].slug /\ r.id = 2

(***************************************************************************)
(* PROPERTIES OF THE GROUP FILTER                                          *)
(***************************************************************************)

\* C4: a message task whose envelope was normalised goes on to the
\* extraction pipeline if and only if the message's groupJid is not null and
\* is allowed by the allow-list the task read (discovery allows nothing);
\* a task in the pipeline carries a group envelope, so direct messages and
\* messages of groups outside the list never reach classification.
C4_AdmittedIffAllowedGroup ==
    \A t \in TaskIds :
        /\ tasks[t].pc \in {"pipeline", "dropped_filter"} =>
             (tasks[t].pc = "pipeline" <=>
                (/\ tasks[t].message.groupJid # NullJid
                 /\ isGroupAllowed(tasks[t].config, tasks[t].message.groupJid)))
        /\ tasks[t].pc = "pipeline" =>
             /\ tasks[t].envelope.hasKey /\ tasks[t].envelope.hasMessage
             /\ tasks[t].envelope.remoteJid \in GroupJids
             /\ tasks[t].envelope.remoteJid \in Range(tasks[t].config.allowedGroupJids)

\* One group message was admitted and another, of a group outside the
\* list its task read in monitor mode, was dropped.
C4_Witness ==
    \E t \in TaskIds, u \in TaskIds :
        /\ tasks[t].pc = "pipeline"
        /\ tasks[u].pc = "dropped_filter"
        /\ tasks[u].config.mode = "monitor"
        /\ tasks[u].message.groupJid # NullJid

(***************************************************************************)
(* PROPERTIES OF THE LLM STAGE CALL                                        *)
(***************************************************************************)

\* C5: when attempt i gets a response with a status in {429, 500, 502, 503,
\* 504} and i is at most MAX_RETRIES, the call sleeps
\* BASE_RETRY_DELAY_MS * 2^(i-1) and then makes attempt i + 1; a response
\* with any other failing status fails the call at once, and a failed call
\* sends no further request.
C5_RetryOnlyRetryableStatuses ==
    [][/\ (llm.pc = "request" /\ llm'.requests = llm.requests + 1) =>
            LET o == llm'.responses[Len(llm'.responses)]
            IN  /\ (/\ o.kind = "http"
                    /\ o.status \in {429, 500, 502, 503, 504}
                    /\ llm.attempt <= MAX_RETRIES) =>
                       /\ llm'.pc = "sleeping"
                       /\ llm'.attempt = llm.attempt
                       /\ llm'.delayMs = BASE_RETRY_DELAY_MS * Pow(2, llm.attempt - 1)
                /\ (/\ o.kind = "http"
                    /\ o.status \notin {200, 429, 500, 502, 503, 504}) =>
                       llm'.pc = "failed"
       /\ llm.pc = "sleeping" =>
            /\ llm'.pc = "request"
            /\ llm'.attempt = llm.attempt + 1
            /\ llm'.requests = llm.requests
            /\ llm'.waits = Append(llm.waits,
                                   BASE_RETRY_DELAY_MS * Pow(2, llm.attempt - 1))
       /\ llm.pc = "failed" => llm' = llm]_vars

\* Three retryable failures were waited out with doubling delays and the
\* fourth attempt met a non-retryable status.
C5_Witness ==
    /\ llm.pc = "failed"
    /\ llm.requests = 4
    /\ llm.waits = <<1000, 2000, 4000>>
    /\ llm.responses[4].status = 400

\* C15 as stated: a response whose body does not parse as the declared
\* schema ends the stage call in failure without a retry, whatever its
\* status.
C15_MalformedBodyNeverRetried ==
    \A k \in DOMAIN llm.responses :
        (llm.responses[k].kind = "http" /\ llm.responses[k].body = "malformed")
            => (k = Len(llm.responses) /\ llm.pc = "failed")

\* C16 as stated: an attempt that takes longer than REQUEST_TIMEOUT_MS
\* fails the stage call with TimeoutError and no attempt follows it.
C16_TimeoutFailsCall ==
    \A k \in DOMAIN llm.responses :
        ExceedsTimeout(llm.responses[k])
            => /\ k = Len(llm.responses)
               /\ llm.pc = "failed"
               /\ llm.error.tag = "TimeoutError"

(***************************************************************************)
(* PROPERTIES OF THE CONNECTION MANAGER                                    *)
(***************************************************************************)

\* C6: once the Connected transition of a socket has been handled the retry
\* counter is zero for as long as that socket is open, so the retryable
\* close of a socket that was open is handled with the counter at zero and
\* arms the reconnect timer with BASE_RECONNECT_DELAY_MS.
C6_CounterResetOnConnected ==
    /\ [](\A i \in DOMAIN sockets :
            (sockets[i] = "open" /\ Quiescent) => reconnectRetryCount = 0)
    /\ [][(\E i \in DOMAIN sockets :
             /\ sockets[i] = "open"
             /\ sockets'[i] = "closed"
             /\ connLog'.lastState = "DisconnectedWithReconnect")
          => /\ reconnectRetryCount = 0
             /\ reconnectRetryCount' = 1
             /\ timers' = Append(timers, Delay(BASE_RECONNECT_DELAY_MS, 1))]_vars

\* Two reconnects failed, the third socket connected, and its close armed
\* the timer with the base delay again.
C6_Witness ==
    /\ connLog.everConnected
    /\ connLog.lastState = "DisconnectedWithReconnect"
    /\ connLog.reconnectCalls = 3
    /\ connLog.delaysSinceConnected = <<Delay(BASE_RECONNECT_DELAY_MS, 1)>>
    /\ timers = <<Delay(BASE_RECONNECT_DELAY_MS, 1)>>

\* C7: the k-th reconnect scheduled since the last successful connection
\* (k counted from zero) is delayed by BASE_RECONNECT_DELAY_MS * 2.5^k, and
\* these delays are strictly increasing.
C7_DelayGrowsGeometrically ==
    LET d == connLog.delaysSinceConnected
    IN  /\ \A k \in DOMAIN d :
              d[k].num * Pow(2, k - 1)
                 = BASE_RECONNECT_DELAY_MS * Pow(5, k - 1) * d[k].den
        /\ \A k \in DOMAIN d :
              k > 1 => d[k - 1].num * d[k].den < d[k].num * d[k - 1].den

\* After a successful connection, every reconnect the bound allows was
\* scheduled in a row.
C7_Witness ==
    /\ connLog.everConnected
    /\ Len(connLog.delaysSinceConnected) = MAX_RECONNECT_RETRIES + 1

\* C8: the retry counter never exceeds MAX_RECONNECT_RETRIES + 1; a
\* retryable disconnect handled while the counter exceeds
\* MAX_RECONNECT_RETRIES schedules no session and queues the exit, nothing
\* but the queued effects runs until the exit has logged the error and
\* ended the process with code 1.
C8_RetriesBounded ==
    /\ [](reconnectRetryCount <= MAX_RECONNECT_RETRIES + 1)
    /\ [](connLog.loggedMaxRetries => exitCode = {1})
    /\ [][(/\ connLog'.reconnectCalls = connLog.reconnectCalls + 1
           /\ reconnectRetryCount > MAX_RECONNECT_RETRIES)
          => /\ timers' = timers
             /\ reconnectRetryCount' = reconnectRetryCount
             /\ connLog'.scheduled = connLog.scheduled
             /\ fibers'[Len(fibers')] = Fiber("exit", "none")]_vars
    /\ [][(\E k \in DOMAIN fibers : fibers[k].kind = "exit")
          => /\ timers' = timers
             /\ Len(sockets') = Len(sockets)
             /\ fibers' = Tail(fibers)
             /\ Head(fibers).kind = "exit" =>
                  (exitCode' = {1} /\ connLog'.loggedMaxRetries)]_vars

\* The seventh retryable disconnect in a row ended the process.
C8_Witness ==
    /\ exitCode = {1}
    /\ connLog.loggedMaxRetries
    /\ reconnectRetryCount = MAX_RECONNECT_RETRIES + 1
    /\ connLog.scheduled = MAX_RECONNECT_RETRIES + 1
    /\ connLog.reconnectCalls = MAX_RECONNECT_RETRIES + 2
    /\ timers = <<>>

\* C9: a close whose reason is loggedOut yields LoggedOut, calls no
\* reconnect and leaves the counter and the timers alone, and from then on
\* no socket, timer or counter changes; a close with any other reason
\* yields DisconnectedWithReconnect and calls onReconnect once.
C9_LoggedOutIsTerminal ==
    /\ [][connLog'.closes = connLog.closes + 1 =>
            IF connLog'.lastReason = "loggedOut"
            THEN /\ connLog'.lastState = "LoggedOut"
                 /\ connLog'.reconnectCalls = connLog.reconnectCalls
                 /\ connLog'.scheduled = connLog.scheduled
                 /\ reconnectRetryCount' = reconnectRetryCount
                 /\ timers' = timers
            ELSE /\ connLog'.lastState = "DisconnectedWithReconnect"
                 /\ connLog'.reconnectCalls = connLog.reconnectCalls + 1]_vars
    /\ [][connLog.lastState = "LoggedOut" =>
            /\ connLog' = connLog
            /\ reconnectRetryCount' = reconnectRetryCount
            /\ timers' = timers
            /\ sockets' = sockets]_vars
    /\ [](connLog.lastState = "LoggedOut" => (timers = <<>> /\ ActiveSockets = {}))

\* A reconnected session was logged out: the counter keeps the value the
\* earlier retryable close gave it.
C9_Witness ==
    /\ connLog.lastState = "LoggedOut"
    /\ connLog.lastReason = "loggedOut"
    /\ connLog.reconnectCalls = 1
    /\ reconnectRetryCount = 1
    /\ Len(sockets) = 2
    /\ Quiescent

\* C10: at most one socket is connecting or open, and none while a
\* reconnect timer is pending; every socket but the newest has reported its
\* close; and every socket after the first comes from one timer armed by
\* one retryable close.
C10_SingleActiveSession ==
    /\ Cardinality(ActiveSockets) + Len(timers) <= 1
    /\ \A i \in DOMAIN sockets : i < Len(sockets) => sockets[i] = "closed"
    /\ Len(sockets) + Len(timers) = 1 + connLog.scheduled
    /\ connLog.scheduled <= connLog.reconnectCalls
    /\ connLog.reconnectCalls <= connLog.closes

\* The third session is open after two retryable closes.
C10_Witness ==
    /\ Len(sockets) = 3
    /\ sockets[3] = "open"
    /\ connLog.closes = 2
    /\ timers = <<>>

(***************************************************************************)
(* PROPERTIES OF THE EVENT PIPELINE                                        *)
(***************************************************************************)

\* The task has left handleIncomingMessage's normalisation behind.
Normalized(t) == tasks[t].pc \notin {"idle", "forked", "normalizing"}

\* The task has read the text of its message in processMessageForEvent.
InPipeline(t) ==
    tasks[t].pc \in {"classifying", "extracting", "extracted", "saving", "ended"}

\* The task has called none of classifyMessage, extractEvent and saveEvent.
NothingCalled(t) ==
    /\ tasks[t].classified = "none"
    /\ tasks[t].extracted = "none"
    /\ tasks[t].requested = {}
    /\ tasks[t].call = 0

\* C11: an envelope that lacks its key or its message body is dropped with a
\* MessageParseError: its task ends before the group filter (no message is
\* built), and neither classification nor extraction nor saveEvent is called
\* for it.
C11_ParseErrorDropsMessage ==
    \A t \in TaskIds :
        (Normalized(t) /\ (~tasks[t].envelope.hasKey \/ ~tasks[t].envelope.hasMessage))
            => /\ tasks[t].pc = "dropped_parse"
               /\ tasks[t].message = NoMessage
               /\ NothingCalled(t)

\* One task was dropped by a parse error and a later one has saved its event.
C11_Witness ==
    /\ tasks[1].pc = "dropped_parse"
    /\ ~tasks[1].envelope.hasMessage
    /\ tasks[2].pc = "ended" /\ tasks[2].reason = "saved"

\* The text is empty or holds whitespace only.
EmptyOrWhitespace(text) == \A i \in DOMAIN text : text[i] = " "

\* C12: an admitted message whose text is empty or whitespace only is taken
\* as "not an event" without any LLM request; no extraction is attempted and
\* saveEvent is not called.
C12_BlankTextNeverReachesLlm ==
    \A t \in TaskIds :
        (InPipeline(t) /\ EmptyOrWhitespace(tasks[t].content))
            => /\ tasks[t].requested = {}
               /\ tasks[t].extracted = "none"
               /\ tasks[t].call = 0
               /\ tasks[t].classified \in {"none", "not_event"}
               /\ tasks[t].pc = "ended"
                    => /\ tasks[t].reason \in {"no_content", "not_event"}
                       /\ tasks[t].hasContent => tasks[t].classified = "not_event"

\* One task has ended on an empty text and another on a whitespace-only one.
C12_Witness ==
    /\ tasks[1].pc = "ended" /\ ~tasks[1].hasContent
    /\ tasks[2].pc = "ended" /\ tasks[2].content = <<" ">>
    /\ tasks[2].classified = "not_event"

\* C13: the extraction call of a message is made only once the
\* classification of the same message has returned "event" (the model's
\* answer was "1"); when the classification returns "not an event" or fails,
\* the task ends with no extraction and no saveEvent.
C13_ExtractionOnlyAfterPositiveClassification ==
    /\ [](\A t \in TaskIds :
            /\ (tasks[t].extracted # "none" \/ "extractEvent" \in tasks[t].requested
                  \/ tasks[t].pc \in {"extracting", "extracted", "saving"})
                 => (tasks[t].classified = "event" /\ tasks[t].answer = "1")
            /\ tasks[t].classified \in {"not_event", "failed"}
                 => /\ tasks[t].pc = "ended"
                    /\ tasks[t].extracted = "none"
                    /\ "extractEvent" \notin tasks[t].requested
                    /\ tasks[t].call = 0)
    /\ [][\A t \in TaskIds :
            tasks'[t].extracted # tasks[t].extracted
                => (tasks[t].pc = "extracting" /\ tasks[t].classified = "event")]_vars

\* One task was classified as an event and extracted, another was classified
\* as not an event by the model, and neither of them is a blank text.
C13_Witness ==
    /\ tasks[1].extracted = "event" /\ tasks[1].answer = "1"
    /\ tasks[2].pc = "ended" /\ tasks[2].answer = "0"
    /\ tasks[2].classified = "not_event"

\* C14: when the extraction stage fails (its stage call fails, or the body
\* is not JSON or not an event) the task ends without calling saveEvent and
\* the step leaves the store as it was.
C14_FailedExtractionSavesNothing ==
    /\ [](\A t \in TaskIds :
            (tasks[t].extracted = "failed" \/ tasks[t].body \in {"wrong_shape", "not_json"})
                => /\ tasks[t].pc = "ended"
                   /\ tasks[t].reason = "extraction_failed"
                   /\ tasks[t].call = 0)
    /\ [][\A t \in TaskIds :
            (tasks[t].extracted = "none" /\ tasks'[t].extracted = "failed")
                => /\ tasks'[t].pc = "ended"
                   /\ UNCHANGED storeVars]_vars

\* One extraction failed on its stage call and another on the shape of the
\* body.
C14_Witness ==
    /\ tasks[1].extracted = "failed" /\ tasks[1].body = "none"
    /\ tasks[2].extracted = "failed" /\ tasks[2].body = "wrong_shape"

\* The branches on which a task ends by a failure.
FailureReasons ==
    {"classification_failed", "extraction_failed", "missing_author",
     "duplicate", "storage_error"}

\* The task has ended by a failure: a parse error or a failed stage.
Failed(task) ==
    \/ task.pc = "dropped_parse"
    \/ task.pc = "ended" /\ task.reason \in FailureReasons

\* C17: a step in which a message task fails (parse error, classification
\* failure, extraction failure, duplicate, storage error) leaves the
\* connection state, the retry counter and the allow-list as they were, does
\* not end the process and changes no other task.
C17_TaskFailureIsIsolated ==
    [][\A t \in TaskIds :
         (~Failed(tasks[t]) /\ Failed(tasks'[t]))
             => /\ UNCHANGED <<connVars, configRef, selecting>>
                /\ exitCode' = {}
                /\ \A u \in TaskIds \ {t} : tasks'[u] = tasks[u]]_vars

\* A task has failed on a storage error and the next one has saved its
\* event.
C17_Witness ==
    /\ tasks[1].pc = "ended" /\ tasks[1].reason = "storage_error"
    /\ tasks[2].pc = "ended" /\ tasks[2].reason = "saved"
    /\ exitCode = {}

(***************************************************************************)
(* PROPERTIES OF THE PROCESS AND THE ALLOW-LIST                            *)
(***************************************************************************)

\* C18 as stated (for a run whose configuration was loaded): the process
\* has exited only if the reconnect retries were exhausted.
C18_ExitOnlyAfterExhaustedRetries ==
    exitCode # {} => connLog.loggedMaxRetries

\* C19 as stated: the allow-list reference is written at most once, and
\* while a selection is in progress or once one has written, no further
\* selection starts.
C19_AllowListWrittenOnce ==
    /\ selecting.writes <= 1
    /\ selecting.listing + selecting.choosing + selecting.writes <= 1

\* The values a reader of configRef may see in a run: what loadConfig
\* returned, or the monitor configuration of one selected group.
CompleteConfigs ==
    LoadedConfigs \cup {MonitorConfig(<<g>>) : g \in GroupJids}

\* C20: every read of the allow-list by a message task returns the whole
\* value configRef holds at the read, which is the startup configuration or
\* a full monitor configuration with exactly one selected group and never
\* something in between; every write replaces the value by such a monitor
\* configuration, and once the mode is monitor it never goes back to
\* discovery.
C20_ReadsSeeCompleteSnapshot ==
    [][/\ \A t \in TaskIds :
            (tasks[t].pc = "forked" /\ tasks'[t].pc = "normalizing")
                => /\ tasks'[t].config = configRef
                   /\ tasks'[t].config \in CompleteConfigs
       /\ configRef' # configRef
            => /\ configRef'.mode = "monitor"
               /\ Len(configRef'.allowedGroupJids) = 1
               /\ configRef'.allowedGroupJids[1] \in GroupJids
       /\ configRef.mode = "monitor" => configRef'.mode = "monitor"]_vars

\* A run started in discovery mode in which one task read the allow-list
\* before the selection was written and another one after it.
C20_Witness ==
    /\ selecting.writes > 0
    /\ \E t, u \in TaskIds :
          /\ tasks[t].pc # "idle" /\ tasks[t].pc # "forked"
          /\ tasks[u].pc # "idle" /\ tasks[u].pc # "forked"
          /\ tasks[t].config = DiscoveryConfig
          /\ tasks[u].config = configRef
          /\ configRef.mode = "monitor"

(***************************************************************************)
(* PROPERTIES OF THE SESSION EVENTS                                        *)
(***************************************************************************)

\* C28: an authentication-challenge event (a connection.update that carries
\* a QR code) only forks the display of the code: it leaves the retry
\* counter, the connection state, the timers, the allow-list and the tasks
\* unchanged, calls neither onStateChange nor onReconnect, and the display
\* itself changes nothing either.
C28_QrOnlyDisplaysCode ==
    [][/\ (fibers = <<>> /\ fibers' # <<>> /\ Head(fibers').kind = "displayQRCode")
            => /\ fibers' = <<Fiber("displayQRCode", "none")>>
               /\ UNCHANGED <<reconnectRetryCount, sockets, timers, exitCode,
                              connLog, configRef, selecting, tasks>>
       /\ (fibers # <<>> /\ Head(fibers).kind = "displayQRCode")
            => /\ fibers' = Tail(fibers)
               /\ UNCHANGED <<reconnectRetryCount, sockets, timers, exitCode,
                              connLog, configRef, selecting, tasks>>]_vars

\* A QR code is about to be displayed on a socket made by a reconnect, with
\* retries counted and a reconnect history behind it.
C28_Witness ==
    /\ fibers = <<Fiber("displayQRCode", "none")>>
    /\ reconnectRetryCount > 0
    /\ connLog.scheduled > 0
    /\ Len(sockets) > 1

\* C30: a retryable disconnect is handled by the same rule whether or not
\* it is flagged as a conflict: from the prior state alone follow the
\* retry-counter update, the reconnect delay and the decision between
\* scheduling a reconnect and exiting, and the state-change callback gets
\* the same tag.
C30_ConflictHandledAsRetryable ==
    [][(connLog'.closes = connLog.closes + 1 /\ connLog'.lastReason # "loggedOut")
          => /\ Head(fibers') = Fiber("handleConnectionChange", "DisconnectedWithReconnect")
             /\ connLog'.reconnectCalls = connLog.reconnectCalls + 1
             /\ IF RetriesExhausted(reconnectRetryCount)
                THEN /\ reconnectRetryCount' = reconnectRetryCount
                     /\ timers' = timers
                     /\ fibers'[Len(fibers')] = Fiber("exit", "none")
                ELSE /\ reconnectRetryCount' = reconnectRetryCount + 1
                     /\ timers' = Append(timers, ReconnectDelay(reconnectRetryCount))
                     /\ Len(fibers') = 1]_vars

\* A disconnect flagged as a conflict has scheduled a reconnect after
\* earlier retries, and its state-change callback is still to run.
C30_Witness ==
    /\ connLog.lastReason = "connectionClosed"
    /\ connLog.lastState = "DisconnectedWithReconnect"
    /\ fibers # <<>>
    /\ timers # <<>>
    /\ reconnectRetryCount > 1

\* C29: when a write of rotated credentials fails, the failure is logged,
\* the step leaves the connection state, the retry counter, the timers and
\* the message tasks as they were, and the failed write is not queued or
\* started again.
C29_CredsFailureLoggedSessionUnaffected ==
    [][connLog'.credsPending < connLog.credsPending
          => /\ UNCHANGED <<reconnectRetryCount, sockets, timers, fibers, exitCode,
                            configRef, selecting, tasks>>
             /\ connLog'.credsPending = connLog.credsPending - 1
             /\ connLog'.credsFailed => connLog'.credsFailureLogged]_vars

\* The task has run to its end, on whatever branch.
Completed(t) == tasks[t].pc \in {"ended", "dropped_parse", "dropped_filter"}

FetchedAfterSave(c, d) ==
    /\ calls[c].op = "saveEvent" /\ calls[c].result = "ok"
    /\ calls[d].op = "findEventBySlug"
    /\ calls[d].pc = "pending" /\ calls'[d].pc = "done"
    /\ calls[d].slug = calls[c].slug

\* A timestamp of the form YYYY-MM-DDThh:mm:ss.sssZ.
IsIso8601(text) ==
    LET Digits == {"0", "1", "2", "3", "4", "5", "6", "7", "8", "9"}
    IN  /\ Len(text) = 24
        /\ text[5] = "-" /\ text[8] = "-" /\ text[11] = "T"
        /\ text[14] = ":" /\ text[17] = ":" /\ text[20] = "." /\ text[24] = "Z"
        /\ \A i \in (1..23) \ {5, 8, 11, 14, 17, 20} : text[i] \in Digits

\* The stored event of call d equals the input of call c on the columns
\* that are copied, and its timestamps are ISO-8601 strings.
FetchedMatches(c, d) ==
    /\ calls'[d].result = "ok"
    /\ Len(calls'[d].found) = 1
    /\ LET e == calls'[d].found[1]
       IN  /\ e.slug = calls[c].slug
           /\ e.title = calls[c].title
           /\ e.startAt = calls[c].startAt
           /\ e.whatsappMessageId = calls[c].whatsappMessageId
           /\ IsIso8601(e.createdAt)
           /\ IsIso8601(e.updatedAt)

\* What String.prototype.replace gives for the texts of Bodies, worked out
\* by hand from the regular expressions of markdown.ts.
ExpectedMarkdown(body) ==
    CASE body = <<"a">> -> <<"a">>
      [] body = <<"*", "a", "*">> -> <<"*", "*", "a", "*", "*">>
      [] body = <<"h", "t", "t", "p", ":", "/", "/", "a">> ->
           <<"[", "e", "n", "l", "a", "c", "e", " ", "e", "x", "t", "e", "r",
             "n", "o", "]", "(", "h", "t", "t", "p", ":", "/", "/", "a", ")">>

C23_DuplicateIffUniqueFailure ==
    /\ [][\A t \in TaskIds :
            (tasks[t].pc = "saving" /\ tasks'[t].pc # "saving") =>
              LET c        == tasks[t].call
                  conflict == \E r \in rows :
                                \/ r.slug = calls[c].slug
                                \/ r.whatsappMessageId = calls[c].whatsappMessageId
                  error    == calls'[c].error
                  result   == calls'[c].result
              IN  /\ calls'[c].pc = "done"
                  /\ result = "DuplicateEventError" <=> error = UniqueConstraintFailed
                  /\ result = "EventStorageError"
                       <=> error \notin {"none", UniqueConstraintFailed}
                  /\ result = "ok" <=> error = "none"
                  /\ error = UniqueConstraintFailed => conflict
                  /\ conflict => error # "none"
                  /\ result # "ok" => rows' = rows /\ nextId' = nextId
                  /\ tasks'[t].pc = "ended"
                  /\ \A d \in CallIds \ {c} : calls'[d] = calls[d]]_vars
    /\ [][\A t \in TaskIds :
            tasks[t].pc = "ended" => tasks'[t] = tasks[t]]_vars
    /\ [][\A c \in CallIds :
            (calls[c].pc = "idle" /\ calls'[c].pc # "idle") =>
              \E t \in TaskIds : /\ tasks[t].pc = "extracted"
                                 /\ tasks[t].call = 0
                                 /\ tasks'[t].pc = "saving"
                                 /\ tasks'[t].call = c]_vars

\* One task has saved its event and the save of another task, with the
\* same slug or message id, was refused as a duplicate: that task has ended
\* and the table holds the one row.
C23_Witness ==
    \E t \in TaskIds, u \in TaskIds :
        /\ tasks[t].pc = "ended" /\ tasks[t].reason = "saved"
        /\ tasks[u].pc = "ended" /\ tasks[u].reason = "duplicate"
        /\ calls[tasks[u].call].error = UniqueConstraintFailed
        /\ calls[tasks[u].call].result = "DuplicateEventError"
        /\ Cardinality(rows) = 1

FindOps == {"findEventBySlug", "findEventByWhatsAppMessageId"}

\* The rows a find call asks for.
Asked(c) ==
    IF calls[c].op = "findEventBySlug"
    THEN {r \in rows : r.slug = calls[c].slug}
    ELSE {r \in rows : r.whatsappMessageId = calls[c].whatsappMessageId}

\* C24: findEventBySlug and findEventByWhatsAppMessageId return
\* EventNotFoundError if and only if the query ran and no row has the slug
\* or message id asked for, EventStorageError when the query failed, and
\* the stored event of the row that has it otherwise; no step of a find
\* call changes the table.
C24_FindNotFoundIffNoRow ==
    /\ [][\A c \in CallIds :
            (calls[c].op \in FindOps /\ calls[c].pc = "pending"
               /\ calls'[c].pc = "done") =>
              LET result == calls'[c].result
                  error  == calls'[c].error
              IN  /\ result = "EventNotFoundError" <=> (Asked(c) = {} /\ error = "none")
                  /\ result = "EventStorageError" <=> error # "none"
                  /\ result = "ok" <=> (Asked(c) # {} /\ error = "none")
                  /\ result = "ok" =>
                       /\ Len(calls'[c].found) = 1
                       /\ \E r \in Asked(c) :
                            /\ [calls'[c].found[1] EXCEPT !.createdAt = r.createdAt,
                                                          !.updatedAt = r.updatedAt] = r
                            /\ IsIso8601(calls'[c].found[1].createdAt)
                  /\ rows' = rows /\ nextId' = nextId]_vars
    /\ [][\A c \in CallIds :
            (calls[c].pc = "idle" /\ calls'[c].op \in FindOps) =>
              rows' = rows /\ nextId' = nextId]_vars

\* Both outcomes have happened: a find by message id returned
\* EventNotFoundError while no row held the id, and a find by slug returned
\* the row of the event saved with that id.
C24_Witness ==
    \E c \in CallIds, d \in CallIds :
        /\ calls[c].op = "findEventBySlug" /\ calls[c].result = "ok"
        /\ calls[c].found[1].slug = calls[c].slug
        /\ calls[d].op = "findEventByWhatsAppMessageId"
        /\ calls[d].result = "EventNotFoundError"
        /\ calls[d].whatsappMessageId = calls[c].found[1].whatsappMessageId

\* C25: a deleteEvent whose statement the database executes returns
\* EventNotFoundError and leaves the table unchanged when no row has the
\* slug; otherwise it removes the one row with that slug and no other row.
\* After it, a findEventBySlug of the slug whose query runs returns
\* EventNotFoundError, and a saveEvent with the slug and the message id of
\* the removed row whose insert runs succeeds.  (A rejected statement gives
\* EventStorageError and changes nothing.)
C25_DeleteRemovesExactlyTheRow ==
    /\ [][\A c \in CallIds :
            (calls[c].op = "deleteEvent" /\ calls[c].pc = "pending"
               /\ calls'[c].pc = "done") =>
              LET hit    == {r \in rows : r.slug = calls[c].slug}
                  result == calls'[c].result
              IN  /\ nextId' = nextId
                  /\ calls'[c].error # "none" =>
                       result = "EventStorageError" /\ rows' = rows
                  /\ (calls'[c].error = "none" /\ hit = {}) =>
                       result = "EventNotFoundError" /\ rows' = rows
                  /\ (calls'[c].error = "none" /\ hit # {}) =>
                       /\ result = "ok"
                       /\ Cardinality(hit) = 1
                       /\ rows' = rows \ hit
                       /\ calls'[c].found = <<CHOOSE r \in hit : TRUE>>]_vars
    /\ [][\A c \in CallIds \ {1} :
            (calls[c - 1].op = "deleteEvent"
               /\ calls[c - 1].result \in {"ok", "EventNotFoundError"}
               /\ calls[c].op = "findEventBySlug"
               /\ calls[c].slug = calls[c - 1].slug
               /\ calls[c].pc = "pending" /\ calls'[c].pc = "done"
               /\ calls'[c].error = "none") =>
              calls'[c].result = "EventNotFoundError"]_vars
    /\ [][\A c \in CallIds \ {1} :
            (calls[c - 1].op = "deleteEvent" /\ calls[c - 1].result = "ok"
               /\ calls[c].op = "saveEvent"
               /\ calls[c].slug = calls[c - 1].slug
               /\ calls[c].whatsappMessageId
                    = calls[c - 1].found[1].whatsappMessageId
               /\ calls[c].pc = "pending" /\ calls'[c].pc = "done"
               /\ calls'[c].error = "none") =>
              /\ calls'[c].result = "ok"
              /\ \E r \in rows' \ rows :
                   /\ r.slug = calls[c].slug
                   /\ r.whatsappMessageId = calls[c].whatsappMessageId]_vars

\* An event was saved, deleted by its slug, and saved again with the same
\* slug and message id.
C25_Witness ==
    /\ calls[1].op = "saveEvent" /\ calls[1].result = "ok"
    /\ calls[2].op = "deleteEvent" /\ calls[2].result = "ok"
    /\ calls[2].slug = calls[1].slug
    /\ calls[3].op = "saveEvent" /\ calls[3].result = "ok"
    /\ calls[3].slug = calls[1].slug
    /\ calls[3].whatsappMessageId = calls[1].whatsappMessageId
    /\ Cardinality(rows) = 1

\* The instant of a start time, in hours UTC: the local hour less the
\* offset.
StartInstant(startAt) ==
    LET value(i) == Code(startAt[i]) - 48
        hour     == 10 * value(1) + value(2)
        offset   == IF startAt[3] = "Z" THEN 0
                    ELSE IF startAt[3] = "+" THEN 10 * value(4) + value(5)
                    ELSE 0 - (10 * value(4) + value(5))
    IN  hour - offset

\* C26: listAllEvents returns every row of the table exactly once, and of
\* any two consecutive returned events the first does not start at a later
\* instant than the second.
C26_ListedAscendingByStartInstant ==
    [][\A c \in CallIds :
          (calls[c].op = "listAllEvents" /\ calls[c].pc = "pending"
             /\ calls'[c].pc = "done") =>
            LET found == calls'[c].found
            IN  /\ Len(found) = Cardinality(rows)
                /\ \A r \in rows : \E i \in DOMAIN found : found[i].id = r.id
                /\ \A i \in DOMAIN found : \E r \in rows : StoredEvent(r) = found[i]
                /\ \A i \in 1..(Len(found) - 1) :
                     StartInstant(found[i].startAt)
                       <= StartInstant(found[i + 1].startAt)]_vars

\* Call c returns successfully in this step.
Succeeds(c, op) ==
    /\ calls[c].op = op /\ calls[c].pc = "pending"
    /\ calls'[c].pc = "done" /\ calls'[c].result = "ok"

\* C27: no operation of the store changes a field of an existing row: a
\* step either leaves the table as it is, or adds one row in a saveEvent
\* that succeeds, or removes rows in a deleteEvent that succeeds; and every
\* row of the table has updatedAt equal to createdAt.
C27_RowsNeverUpdatedInPlace ==
    /\ [](\A r \in rows : r.updatedAt = r.createdAt)
    /\ [][\A r \in rows : r \in rows' \/ ~(\E q \in rows' : q.id = r.id)]_vars
    /\ [][rows' # rows =>
            \/ /\ \E c \in CallIds : Succeeds(c, "saveEvent")
               /\ rows \subseteq rows'
               /\ Cardinality(rows' \ rows) = 1
            \/ /\ \E c \in CallIds : Succeeds(c, "deleteEvent")
               /\ rows' \subseteq rows]_vars

\* A row has stayed as it was inserted while another event was saved and
\* deleted again.
C27_Witness ==
    /\ calls[1].op = "saveEvent" /\ calls[1].result = "ok"
    /\ calls[2].op = "saveEvent" /\ calls[2].result = "ok"
    /\ calls[3].op = "deleteEvent" /\ calls[3].result = "ok"
    /\ calls[3].slug = calls[2].slug
    /\ rows = {EventRow(1, insertEventFromInput(calls[1], calls[1].now))}
    /\ \A r \in rows : r.createdAt = 1 /\ r.updatedAt = 1

(***************************************************************************)
(* PROPERTIES OF RECONNECTION, DISPATCH AND NORMALISATION                  *)
(***************************************************************************)

\* C40: on every retryable disconnect for which a reconnect is scheduled,
\* once the state-change handler has logged its warning, the delay and the
\* attempt number it announced equal the delay of the reconnect timer and
\* the retry count (counter + 1) of the reconnect scheduler.
C40_AnnouncedEqualsUsed ==
    (Quiescent /\ connLog.lastState = "DisconnectedWithReconnect"
       /\ connLog.used # NoAnnouncement /\ connLog.announced # NoAnnouncement)
        => connLog.announced = connLog.used

InFlight(t) == tasks[t].pc # "idle" /\ ~Completed(t)

\* C32: dispatching a batch never waits for a message task.  Every envelope
\* received has a task of its own, forked in the step of the event, and
\* that step changes no other task; while the socket is open the handlers
\* of a disconnect, of a credentials update and of a further batch can run
\* whatever the tasks in flight are doing; and every task in flight can
\* take its next step whatever the other tasks are doing.
C32_DispatchNeverWaitsForTasks ==
    /\ [](Cardinality(Forked) = connLog.upserted)
    /\ [][\A t \in TaskIds :
            (tasks[t].pc = "idle" /\ tasks'[t].pc # "idle")
                => /\ tasks'[t].pc = "forked"
                   /\ connLog'.upserted > connLog.upserted
                   /\ \A u \in Forked : tasks'[u] = tasks[u]]_vars
    /\ [](\A i \in DOMAIN sockets :
            (Running /\ Quiescent /\ sockets[i] = "open")
                => /\ \A u \in {v \in Updates : v.connection = "close"} :
                        ENABLED HandleConnectionUpdate(i, u)
                   /\ connLog.credsPending < MaxCredsWrites
                        => ENABLED HandleCredsUpdate(i)
                   /\ \A batch \in Batches :
                        Cardinality(Forked) + Len(batch) <= MaxTasks
                            => ENABLED HandleMessagesUpsert(i, batch))
    /\ [](\A t \in BatchTaskIds :
            (Running /\ InFlight(t)) => ENABLED BatchTaskStep(t))

\* The two messages of one batch: the task of the second has run to its
\* end while the task of the first is still waiting for its classification,
\* and the disconnect of their socket has been handled meanwhile.
C32_Witness ==
    /\ connLog.upserted = 2
    /\ tasks[1].socket = tasks[2].socket
    /\ tasks[1].pc = "classifying"
    /\ tasks[2].pc = "ended" /\ tasks[2].reason = "saved"
    /\ sockets[1] = "closed"

\* The entries of an allow-list value, read off the positions of its
\* commas: entry b is the text between the boundary b (0 or a comma) and
\* the next one, without the blanks at its two ends.
Boundaries(v) == {0} \cup {i \in 1..Len(v) : v[i] = ","}
NextBoundary(v, b) ==
    CHOOSE c \in Boundaries(v) \cup {Len(v) + 1} :
        c > b /\ \A d \in Boundaries(v) : d > b => d >= c
EntryAt(v, b) ==
    LET inked == {i \in (b + 1)..(NextBoundary(v, b) - 1) : v[i] # " "}
    IN  IF inked = {} THEN <<>>
        ELSE SubSeq(v, CHOOSE i \in inked : \A j \in inked : i <= j,
                       CHOOSE i \in inked : \A j \in inked : i >= j)
EndsInGroupSuffix(x) ==
    /\ Len(x) >= 5
    /\ x[Len(x) - 4] = "@" /\ x[Len(x) - 3] = "g" /\ x[Len(x) - 2] = "."
    /\ x[Len(x) - 1] = "u" /\ x[Len(x)] = "s"
Entries(v)        == {b \in Boundaries(v) : EntryAt(v, b) # <<>>}
ValidEntries(v)   == {b \in Entries(v) : EndsInGroupSuffix(EntryAt(v, b))}
InvalidEntries(v) == Entries(v) \ ValidEntries(v)

\* The entries at the boundaries bs, in the order of the value.
InOrder(v, bs) ==
    [k \in 1..Cardinality(bs) |->
        EntryAt(v, CHOOSE b \in bs : Cardinality({c \in bs : c < b}) = k - 1)]

\* C33: once the configuration is loaded, the load has failed with
\* ConfigError exactly when the value has an entry and no valid one;
\* otherwise the allow-list is exactly the trimmed non-empty entries that
\* end with "@g.us", in their order, the warning names exactly the other
\* entries (and there is one only if an entry was discarded), the mode is
\* discovery exactly when there is no entry and monitor exactly when the
\* list is not empty.
C33_AllowListIsTheValidEntries ==
    (fibers # <<>> /\ Head(fibers).kind = "program" /\ Head(fibers).tag # "start")
        => LET v == Head(fibers).env
           IN  /\ Head(fibers).tag = "ConfigError"
                    <=> (Entries(v) # {} /\ ValidEntries(v) = {})
               /\ Head(fibers).tag = "ConfigError" => configRef = NoConfig
               /\ Head(fibers).tag # "ConfigError"
                    => /\ configRef.allowedGroupJids = InOrder(v, ValidEntries(v))
                       /\ Head(fibers).warned = InOrder(v, InvalidEntries(v))
                       /\ configRef.mode = "discovery" <=> Entries(v) = {}
                       /\ configRef.mode = "monitor"
                            <=> configRef.allowedGroupJids # <<>>
                       /\ configRef.mode \in {"discovery", "monitor"}

\* The value "@g.us ,a": the listener has started in monitor mode with the
\* one valid entry, trimmed, and the other entry was named in the warning.
C33_Witness ==
    /\ fibers # <<>>
    /\ Head(fibers).kind = "program" /\ Head(fibers).tag = "listening"
    /\ Head(fibers).env = GroupSuffix \o <<" ", ",", "a">>
    /\ configRef = MonitorConfig(<<GroupSuffix>>)
    /\ Head(fibers).warned = << <<"a">> >>
    /\ sockets = <<"connecting">>

\* The texts of a body in the order of precedence, and the places of those
\* that are there and not empty.
TextCandidates(message) ==
    <<message.conversation, message.extendedTextMessage,
      message.imageMessage, message.videoMessage>>
NonEmptyCandidates(message) ==
    {k \in 1..4 : TextCandidates(message)[k].present
                    /\ Len(TextCandidates(message)[k].text) > 0}

\* C34: for every envelope body, the text of the canonical message is the
\* first non-empty of conversation text, extended-text text, image caption
\* and video caption, and null when none of them is there and non-empty.
C34_ContentIsFirstNonEmptyText ==
    tasks[1].pc = "normalized"
        => LET body  == tasks[1].envelope.message
               found == NonEmptyCandidates(body)
               first == CHOOSE k \in found : \A j \in found : k <= j
           IN  IF found = {}
               THEN ~tasks[1].message.content.hasContent
               ELSE /\ tasks[1].message.content.hasContent
                    /\ tasks[1].message.content.content = TextCandidates(body)[first].text

\* A body with an empty conversation, an extended text and a video caption:
\* the content is the extended text.
C34_Witness ==
    /\ tasks[1].pc = "normalized"
    /\ tasks[1].envelope.message.conversation = [present |-> TRUE, text |-> <<>>]
    /\ tasks[1].envelope.message.extendedTextMessage.text = <<"x">>
    /\ tasks[1].envelope.message.videoMessage.text = <<"v">>
    /\ tasks[1].message.content = [hasContent |-> TRUE, content |-> <<"x">>]

\* The kinds of sub-message in the order of precedence, with whether the
\* body has them.
KindCandidates(message) ==
    << <<"image", message.imageMessage.present>>,
       <<"video", message.videoMessage.present>>,
       <<"audio", message.audioMessage>>,
       <<"document", message.documentMessage>>,
       <<"sticker", message.stickerMessage>>,
       <<"contact", message.contactMessage>>,
       <<"location", message.locationMessage>> >>

\* C35: for every envelope body, the media kind is the first of image,
\* video, audio, document, sticker, contact, location whose sub-message is
\* present, then text if the conversation field or the extended-text
\* sub-message is present, else unknown.
C35_KindIsFirstPresent ==
    tasks[1].pc = "normalized"
        => LET body  == tasks[1].envelope.message
               found == {k \in 1..7 : KindCandidates(body)[k][2]}
               first == CHOOSE k \in found : \A j \in found : k <= j
           IN  tasks[1].message.type =
                   IF found # {} THEN KindCandidates(body)[first][1]
                   ELSE IF body.conversation.present \/ body.extendedTextMessage.present
                   THEN "text"
                   ELSE "unknown"

\* C35 (amended): as above, with text exactly when the conversation text is
\* not empty or the extended-text sub-message is present.
C35_KindIsFirstPresentOrNonEmptyText ==
    tasks[1].pc = "normalized"
        => LET body  == tasks[1].envelope.message
               found == {k \in 1..7 : KindCandidates(body)[k][2]}
               first == CHOOSE k \in found : \A j \in found : k <= j
           IN  tasks[1].message.type =
                   IF found # {} THEN KindCandidates(body)[first][1]
                   ELSE IF Len(body.conversation.text) > 0
                             \/ body.extendedTextMessage.present
                   THEN "text"
                   ELSE "unknown"

\* A body whose only field is a conversation that is empty: its kind is
\* unknown.
C35_Witness ==
    /\ tasks[1].pc = "normalized"
    /\ tasks[1].envelope.message =
         [conversation |-> [present |-> TRUE, text |-> <<>>],
          extendedTextMessage |-> [present |-> FALSE, text |-> <<>>],
          imageMessage |-> [present |-> FALSE, text |-> <<>>],
          videoMessage |-> [present |-> FALSE, text |-> <<>>],
          audioMessage |-> FALSE, documentMessage |-> FALSE,
          stickerMessage |-> FALSE, contactMessage |-> FALSE,
          locationMessage |-> FALSE]
    /\ tasks[1].message.type = "unknown"

\* The error postChatCompletion builds for a failing response with a
\* retryable status.
ExpectedErrorOf(o) ==
    IF o.status = 429
    THEN [tag |-> "RateLimitError", hasStatusCode |-> FALSE, statusCode |-> 0,
          retryAfter |-> o.retryAfter]
    ELSE [tag |-> "OpenRouterError", hasStatusCode |-> TRUE,
          statusCode |-> o.status, retryAfter |-> 0]

RetryableStatus(o) ==
    o.kind = "http" /\ o.status \in {429, 500, 502, 503, 504}

CallsOfTasks == {tasks[t].call : t \in TaskIds} \ {0}

\* C37: saveEvent is called for a message only after its extraction gave an
\* event and only when the message has a group JID and an author; a task
\* whose message was classified and extracted but has no author ends on the
\* branch that logs the error, in a step that leaves the store as it was,
\* and never issues a storage call.
C37_SaveOnlyWithGroupAndAuthor ==
    /\ [](/\ \A c \in CallIds : calls[c].op = "saveEvent" => c \in CallsOfTasks
          /\ \A t \in TaskIds :
                /\ tasks[t].call # 0 =>
                      /\ tasks[t].extracted = "event"
                      /\ tasks[t].message.groupJid # NullJid
                      /\ tasks[t].author = "present"
                /\ tasks[t].author = "null" =>
                      /\ tasks[t].pc = "ended"
                      /\ tasks[t].reason = "missing_author"
                      /\ tasks[t].call = 0)
    /\ [][\A t \in TaskIds :
            (tasks[t].pc = "extracted" /\ tasks'[t].author = "null")
                => UNCHANGED storeVars]_vars

\* One message with an author has had its event saved; another, classified
\* and extracted as an event, had no author and was dropped.
C37_Witness ==
    /\ tasks[1].pc = "ended" /\ tasks[1].reason = "saved"
    /\ tasks[1].author = "present"
    /\ tasks[2].pc = "ended" /\ tasks[2].reason = "missing_author"
    /\ tasks[2].classified = "event" /\ tasks[2].extracted = "event"
    /\ tasks[2].author = "null"
    /\ Cardinality(rows) = 1

\* The task has read the allow-list.
HasSnapshot(task) == task.pc \notin {"idle", "forked"}

\* C38: a task is admitted to the pipeline exactly when the snapshot it
\* read admits its message; a task that read the discovery snapshot is
\* never classified, extracted or stored, whatever configRef holds later;
\* and a dropped task takes no further step, also when a selection replaces
\* the allow-list by the group of its message.
C38_AdmissionBySnapshotAtStart ==
    /\ [](\A t \in TaskIds :
            /\ (HasSnapshot(tasks[t]) /\ tasks[t].config.mode = "discovery") =>
                  /\ tasks[t].pc \in {"normalizing", "dropped_parse", "dropped_filter"}
                  /\ tasks[t].classified = "none"
                  /\ tasks[t].extracted = "none"
                  /\ tasks[t].requested = {}
                  /\ tasks[t].call = 0
            /\ tasks[t].pc \in {"pipeline", "classifying", "extracting", "extracted",
                                "saving", "ended"} =>
                  FilterAdmits(tasks[t].config, tasks[t].message)
            /\ tasks[t].pc = "dropped_filter" =>
                  ~FilterAdmits(tasks[t].config, tasks[t].message))
    /\ [][\A t \in TaskIds :
            /\ HasSnapshot(tasks[t]) => tasks'[t].config = tasks[t].config
            /\ tasks[t].pc \in {"dropped_parse", "dropped_filter"} =>
                  tasks'[t] = tasks[t]]_vars

\* A message of group g1 was dropped by a task that had read the discovery
\* snapshot; the selection has since made g1 the allow-list, and a later
\* message of g1 has been saved.
C38_Witness ==
    /\ tasks[1].pc = "dropped_filter"
    /\ tasks[1].config = DiscoveryConfig
    /\ tasks[1].message.groupJid = Jid("g1", "g.us")
    /\ configRef = MonitorConfig(<<Jid("g1", "g.us")>>)
    /\ tasks[2].config = configRef
    /\ tasks[2].message.groupJid = Jid("g1", "g.us")
    /\ tasks[2].pc = "ended" /\ tasks[2].reason = "saved"

\* The tasks whose envelope has a key without id, and those of them whose
\* event was given to saveEvent.
NoIdTasks ==
    {t \in TaskIds : tasks[t].pc # "idle" /\ tasks[t].envelope.key.id = Null}

NoIdTasksAtSaveEvent == {t \in NoIdTasks : tasks[t].call # 0}

RowsWithEmptyId == {r \in rows : r.whatsappMessageId = ""}

\* C39: the canonical message of an envelope without key id has the id "";
\* saveEvent is given that id; of the messages without id whose events were
\* given to saveEvent at most one is stored; and once a row with the id ""
\* is there, the insert of every other such message, when the database
\* executes it, is rejected as DuplicateEventError, whatever its slug.
C39_MissingIdsCollideOnEmptyString ==
    /\ [](/\ \A t \in NoIdTasks :
                /\ tasks[t].pc \notin {"forked", "normalizing"} =>
                      tasks[t].message.id = ""
                /\ tasks[t].call # 0 =>
                      calls[tasks[t].call].whatsappMessageId = ""
          /\ Cardinality({t \in NoIdTasks : tasks[t].reason = "saved"}) <= 1
          /\ Cardinality(RowsWithEmptyId) <= 1)
    /\ [][\A t \in NoIdTasks :
            (/\ tasks[t].pc = "saving" /\ tasks'[t].pc = "ended"
             /\ RowsWithEmptyId # {}
             /\ calls'[tasks[t].call].error # DiskIoError)
                => /\ tasks'[t].reason = "duplicate"
                   /\ calls'[tasks[t].call].result = "DuplicateEventError"
                   /\ rows' = rows]_vars

\* Two messages without key id whose events have different slugs were both
\* given to saveEvent: the first is the one row, the second was rejected as
\* a duplicate.
C39_Witness ==
    /\ NoIdTasksAtSaveEvent = {1, 2}
    /\ tasks[1].reason = "saved"
    /\ tasks[2].reason = "duplicate"
    /\ calls[tasks[1].call].slug # calls[tasks[2].call].slug
    /\ Cardinality(rows) = 1
    /\ RowsWithEmptyId = rows

====
